---- MODULE Spec2Model ----
(***************************************************************************)
(* A model of vidai: the runway client's request executor (do/doAttempt),  *)
(* its rate limiter, the task poller (Generate), and the generate and      *)
(* extend command workflows.                                               *)
(*                                                                         *)
(* Time is counted in seconds.  Strings that the code inspects by prefix   *)
(* or by pattern (rejection reasons, URLs) are sequences of tokens.        *)
(***************************************************************************)
EXTENDS Integers, Sequences, FiniteSets, TLC

VARIABLES
    \* clock and the workflow context (ctx)
    now, cancelled,
    \* runway.Client fields and its rate limiter
    expiration, teamID, wait, permit, lastGrant,
    \* one call of Client.do
    doPc, doOp, attempts, doErr, doOut, doStart, doWaits, doSends,
    \* history of the call: attempts failed with a status do retries, attempts failed
    \* otherwise, what the last attempt ended in
    statusFails, otherFails, lastAttempt,
    \* history of the client: do calls refused as expired, time of the last physical send
    refused, lastSendAt,
    \* one call of Client.Generate
    genPc, genReq, taskResp, genResult, submissions, polls, observed, observedAt,
    temporary,
    \* operations started on the client, failed attempts the remote has caused
    opCount, faults,
    \* one run of a command (extend.Run or generate.Run): its configuration, its
    \* position, its locals, the local files and the deferred deletions
    cfg, wfPc, loopI, vid, videos, urls, gen, deferred, fs, manifest, result,
    \* history of the run: the steps taken, the Generate requests, the assets
    \* uploaded, the most segment files held at once, no step has failed
    wfLog, genCalls, uploaded, peak, clean,
    \* the callers that share one rate limiter: the configured wait, each
    \* caller's position, the callers waiting in arrival order, and the times of
    \* the grant before the last and of the last release
    cfgWait, callers, queue, prevGrant, lastRelease,
    \* the task creation request Generate has built
    createReq,
    \* the team id: the profile lookups that concurrent callers of loadTeamID
    \* have issued, the values assigned to c.teamID, and what each concurrent
    \* caller has fetched
    lookups, assigned, fetched,
    \* one call of Client.Upload: its position and its locals; the requests the
    \* client has handed to do, as doAttempt builds them, each with its answer
    up, sent,
    \* commands that run at the same time on one machine: each one's input and
    \* position, and the temporary files each has written, read or removed
    runs, touched,
    \* a response body on the wire and what json.Unmarshal made of it
    wire, decoded,
    \* the configuration of one Generate call and the task options built from it
    genCfg, genTask

clockVars  == <<now, cancelled>>
clientVars == <<expiration, teamID, wait, permit, lastGrant>>
doVars     == <<doPc, doOp, attempts, doErr, doOut, doStart, doWaits, doSends,
                statusFails, otherFails, lastAttempt>>
histVars   == <<refused, lastSendAt>>
genVars    == <<genPc, genReq, taskResp, genResult, submissions, polls, observed,
                observedAt, temporary, createReq>>
envVars    == <<opCount, faults>>
wfVars     == <<cfg, wfPc, loopI, vid, videos, urls, gen, deferred, fs, manifest, result,
                wfLog, genCalls, uploaded, peak, clean>>
lkVars     == <<cfgWait, callers, queue, prevGrant, lastRelease>>
teamVars   == <<lookups, assigned, fetched>>
uploadVars == <<up, sent>>
tempVars   == <<runs, touched>>
wireVars   == <<wire, decoded>>
taskVars   == <<genCfg, genTask>>
restVars   == <<uploadVars, tempVars, wireVars, taskVars>>
vars == <<clockVars, clientVars, doVars, histVars, genVars, envVars, wfVars, lkVars,
          teamVars, restVars>>

----------------------------------------------------------------------------
(* Bounds of the model *)

\* operations started on one client in one behaviour
MaxOps == 2
\* re-fetches of one task in one Generate call
MaxPolls == 1
\* failed attempts the transport and the remote cause in one behaviour
MaxFaults == 3
\* the largest n of extend and the largest extension count of generate
MaxN == 2
\* the callers that share a rate limiter, and how long they are watched
MaxCallers == 2
MaxTime == 4
\* re-fetches of one task in a Generate call that is followed to its return
MaxLivePolls == 2
Callers == 1..MaxCallers

----------------------------------------------------------------------------
(* Program constants *)

maxAttemptsTwo == 3 - 1
maxAttempts == 3
StatusOK == 200
DefaultWait == 1
PollDelayZero == 5 - 5
PollDelay == 5
backoff == <<30, 60, 120>>

\* statuses do retries after a wait
RetryStatuses == {502, 504, 429, 500, 520, 522}

\* the failure statuses the remote answers with here
StatusSamples == {502, 500, 404}

Max(a, b) == IF a >= b THEN a ELSE b
Min(a, b) == IF a <= b THEN a ELSE b

----------------------------------------------------------------------------
(* Values *)

None == "none"

\* errors of do / doAttempt
NoErr        == [kind |-> "nil", code |-> 0]
ErrExpired   == [kind |-> "expired", code |-> 0]
ErrTimeout   == [kind |-> "timeout", code |-> 0]
ErrTransport == [kind |-> "transport", code |-> 0]
ErrContext   == [kind |-> "context", code |-> 0]
ErrDecode    == [kind |-> "decode", code |-> StatusOK]
errStatusCode(c) == [kind |-> "status", code |-> c]

\* the operations that reach do, and whether they pass an output shape
Ops == {"profile", "tasks", "task", "download", "delete"}
HasOut(op) == op # "download"

\* reasons, token by token
ReasonSafetyText  == <<"SAFETY", ".", "INPUT", ".", "TEXT">>
ReasonBadOutput   == <<"INTERNAL", ".", "BAD_OUTPUT", ".", "CODE01">>
ReasonBadOutputDot == <<"INTERNAL", ".", "BAD_OUTPUT", ".">>
ReasonBadOutputBare == <<"INTERNAL", ".", "BAD_OUTPUT">>
ReasonSafetyImage == <<"SAFETY", ".", "INPUT", ".", "IMAGE">>
ReasonSafetyTextMore == <<"SAFETY", ".", "INPUT", ".", "TEXT", ".", "MORE">>
Reasons == {<<>>, ReasonSafetyText, ReasonBadOutput, ReasonBadOutputDot,
            ReasonBadOutputBare, ReasonSafetyImage, ReasonSafetyTextMore}

\* URLs, token by token; a UUID is one token
UUIDs == {"uuid-a", "uuid-b"}
URLEmpty == <<>>
URLPlain == <<"https://host/", "video.mp4">>
URLOne   == <<"https://host/", "uuid-a", ".mp4">>
URLTwo   == <<"https://host/", "uuid-b", "/", "uuid-a">>
URLs == {URLEmpty, URLPlain, URLOne, URLTwo}

Artifact(u) == [ID |-> "art", URL |-> u, PreviewURLs |-> <<"preview">>]
ArtifactLists == {<<>>, <<Artifact(URLEmpty)>>, <<Artifact(URLPlain)>>,
                  <<Artifact(URLOne)>>, <<Artifact(URLTwo), Artifact(URLEmpty)>>,
                  <<Artifact(URLEmpty), Artifact(URLOne)>>}

NoTaskError == [Message |-> "", Reason |-> <<>>, ModerationCategory |-> ""]
TaskErrors == {[Message |-> "rejected", Reason |-> r, ModerationCategory |-> "violence"] :
                 r \in Reasons}
              \cup {[Message |-> "", Reason |-> r, ModerationCategory |-> ""] :
                      r \in {<<>>, ReasonSafetyText}}

RejectedText == [Message |-> "rejected", Reason |-> ReasonSafetyText,
                 ModerationCategory |-> "violence"]

WaitingStatuses == {"PENDING", "RUNNING", "THROTTLED"}
FailedStatuses  == {"FAILED", "CANCELLED", ""}

taskData(s, e, a) == [ID |-> "task", Status |-> s, Error |-> e, Artifacts |-> a]
NoTask == taskData("", NoTaskError, <<>>)

\* what the remote can answer to a task creation or re-fetch
TaskBodies ==
    {taskData(s, NoTaskError, <<>>) : s \in WaitingStatuses}
    \cup {taskData("SUCCEEDED", NoTaskError, a) : a \in ArtifactLists}
    \cup {taskData("FAILED", e, <<>>) : e \in TaskErrors}
    \cup {taskData(s, e, <<>>) : s \in {"CANCELLED", ""},
                                 e \in {NoTaskError, RejectedText}}
    \cup {taskData("FAILED", [NoTaskError EXCEPT !.Reason = ReasonSafetyText],
                   <<Artifact(URLOne)>>)}

\* what the remote can answer to a profile lookup
ProfileBodies == {[ID |-> 7, Organizations |-> <<>>],
                  [ID |-> 7, Organizations |-> <<9, 8>>]}
\* a 200 answer whose JSON has no user id decodes to the zero profile
ZeroProfile == [ID |-> 0, Organizations |-> <<>>]

NoBody == [none |-> TRUE]
Bodies(op) ==
    CASE op = "profile" -> ProfileBodies
      [] op \in {"tasks", "task"} -> TaskBodies
      [] OTHER -> {NoBody}

\* a GenerateRequest: the model, the asset URL and whether it is an extension
Models == {"gen2", "gen3", "other"}
GenerateRequest(m, u, x) == [Model |-> m, AssetURL |-> u, Extend |-> x]
GenerateRequests == {GenerateRequest(m, "", FALSE) : m \in Models}
\* fresh generations from text or from an asset, and extensions of a video
AllGenerateRequests ==
    {GenerateRequest(m, u, x) : m \in Models, u \in {"", "asset"}, x \in BOOLEAN}
NoRequest == GenerateRequest("", "", FALSE)

\* the input references of a task creation request; a field that is empty, or
\* that the request type does not have, is left out of the JSON
Payload(type, image, prompt, video, team) ==
    [TaskType |-> type, InitImage |-> image, ImagePrompt |-> prompt,
     InitVideo |-> video, AsTeamID |-> team]
NoPayload == Payload("", "", "", "", 0)

\* Generate: imageURL and videoURL, and the request of each model; gen3Options
\* has no init_video and no image_prompt field
createTaskRequest(req, team) ==
    LET videoURL == IF req.Extend THEN req.AssetURL ELSE ""
        imageURL == IF req.Extend THEN "" ELSE req.AssetURL
    IN  IF req.Model = "gen2"
        THEN Payload("gen2", imageURL, imageURL, videoURL, team)
        ELSE Payload("gen3a", imageURL, "", "", team)

NoResult == [kind |-> "none"]

\* local files and remote URLs by kind and number: base-3.mp4 is File("mp4", 3)
Ref(k, n) == [kind |-> k, idx |-> n]
NoRef == Ref("none", 0)
NoGeneration == [URL |-> NoRef, S3URL |-> NoRef]

----------------------------------------------------------------------------
(* The rate limiter (pkg/ratelimit), as the specification describes it:    *)
(* one permit at a time, granted no earlier than `wait` after the previous *)
(* grant, and none once the context is cancelled.                          *)

NoGrant == 0 - 1

\* New: the interval handed to ratelimit.New
NewWaitRaw(w) == w
NewWait(w) == IF w = 0 THEN DefaultWait ELSE w

\* the earliest time the next permit may be granted
GrantTime == IF lastGrant = NoGrant THEN now ELSE Max(now, lastGrant + wait)

----------------------------------------------------------------------------
(* Client.do and Client.doAttempt *)

\* do: time.Now().After(c.expiration)
TokenExpiredNever(t) == FALSE
TokenExpired(t) == t > expiration

\* what one physical attempt can end in, as doAttempt reports it
AttemptErrors(op) ==
    {ErrTimeout, ErrTransport}
    \cup {errStatusCode(c) : c \in StatusSamples}
    \cup (IF HasOut(op) THEN {ErrDecode} ELSE {})

\* do: the wait chosen after `n` failed attempts
backoffWaitNext(n) == backoff[Min(n, Len(backoff) - 1) + 1]
backoffWaitFirst(n) == backoff[1]
backoffWait(n) == backoff[Min(n - 1, Len(backoff) - 1) + 1]

\* do is entered: the expiration check, then the first attempt
doEnter(op, t) ==
    /\ doOp' = op
    /\ doStart' = t
    /\ attempts' = 0
    /\ doOut' = NoBody
    /\ statusFails' = 0
    /\ otherFails' = 0
    /\ lastAttempt' = NoErr
    /\ doWaits' = <<>>
    /\ doSends' = 0
    /\ IF TokenExpired(t)
       THEN /\ doPc' = "done"
            /\ doErr' = ErrExpired
            /\ refused' = refused + 1
       ELSE /\ doPc' = "lock"
            /\ doErr' = NoErr
            /\ refused' = refused

\* doAttempt: unlock := c.ratelimit.Lock(ctx)
doAttemptLock ==
    /\ doPc = "lock"
    /\ doPc' = "send"
    /\ IF cancelled
       THEN UNCHANGED <<now, permit, lastGrant>>
       ELSE /\ permit = FALSE
            /\ now' = GrantTime
            /\ permit' = TRUE
            /\ lastGrant' = GrantTime
    /\ UNCHANGED <<cancelled, expiration, teamID, wait>>
    /\ UNCHANGED <<doOp, attempts, doErr, doOut, doStart, doWaits, doSends,
                 statusFails, otherFails, lastAttempt>>
    /\ UNCHANGED <<histVars, genVars, envVars, wfVars, lkVars, teamVars, restVars>>

\* do: what follows a failed attempt, after attempts++
doAfterErrorRetryAll(err, n) ==
    IF n >= maxAttempts THEN "done"
    ELSE IF err.kind = "timeout" THEN "lock"
    ELSE IF err.kind = "status" THEN "backoff"
    ELSE "done"
doAfterErrorTimeoutWaits(err, n) ==
    IF n >= maxAttempts THEN "done"
    ELSE IF err.kind = "timeout" THEN "backoff"
    ELSE IF err.kind = "status"
         THEN IF err.code \in RetryStatuses THEN "backoff" ELSE "done"
    ELSE "done"
doAfterErrorSkipLock(err, n) ==
    IF n >= maxAttempts THEN "done"
    ELSE IF err.kind = "timeout" THEN "send"
    ELSE IF err.kind = "status"
         THEN IF err.code \in RetryStatuses THEN "backoff" ELSE "done"
    ELSE "done"
doAfterError(err, n) ==
    IF n >= maxAttempts THEN "done"
    ELSE IF err.kind = "timeout" THEN "lock"
    ELSE IF err.kind = "status"
         THEN IF err.code \in RetryStatuses THEN "backoff" ELSE "done"
    ELSE "done"

\* doAttempt: defer unlock(); whether the permit is still held once the
\* attempt has returned err
deferUnlockOnSuccess(err) == err # NoErr
deferUnlock(err) == FALSE

\* doAttempt from c.client.Do to its return (the deferred unlock included),
\* and do's handling of the result
doAttemptSend ==
    /\ doPc = "send"
    /\ \E err \in (IF cancelled THEN {ErrContext}
                  ELSE IF faults < MaxFaults THEN AttemptErrors(doOp) \cup {NoErr}
                  ELSE {NoErr}) :
         /\ lastAttempt' = err
         /\ permit' = deferUnlock(err)
         /\ statusFails' = IF err.kind = "status" /\ err.code \in RetryStatuses
                           THEN statusFails + 1 ELSE statusFails
         /\ otherFails' = IF err # NoErr /\ ~(err.kind = "status" /\ err.code \in RetryStatuses)
                          THEN otherFails + 1 ELSE otherFails
         /\ faults' = IF err \in AttemptErrors(doOp) THEN faults + 1 ELSE faults
         /\ IF err = NoErr
            THEN /\ doPc' = "done"
                 /\ doErr' = NoErr
                 /\ \E b \in Bodies(doOp) : doOut' = b
                 /\ UNCHANGED <<attempts, doWaits>>
            ELSE /\ attempts' = attempts + 1
                 /\ doErr' = err
                 /\ doPc' = doAfterError(err, attempts + 1)
                 /\ doWaits' = IF doAfterError(err, attempts + 1) = "backoff"
                               THEN Append(doWaits, backoffWait(attempts + 1))
                               ELSE doWaits
                 /\ UNCHANGED doOut
    /\ IF cancelled
       THEN UNCHANGED <<doSends, lastSendAt>>
       ELSE doSends' = doSends + 1 /\ lastSendAt' = now
    /\ UNCHANGED <<clockVars, expiration, teamID, wait, lastGrant>>
    /\ UNCHANGED <<doOp, doStart, refused, genVars, opCount, wfVars, lkVars, teamVars, restVars>>

\* do: the backoff timer fires
doBackoffTimer ==
    /\ doPc = "backoff"
    /\ ~cancelled
    /\ now' = now + doWaits[Len(doWaits)]
    /\ doPc' = "lock"
    /\ UNCHANGED <<cancelled, clientVars, histVars, genVars, envVars, wfVars, lkVars, teamVars, restVars>>
    /\ UNCHANGED <<doOp, attempts, doErr, doOut, doStart, doWaits, doSends,
                 statusFails, otherFails, lastAttempt>>

\* do: ctx.Done() during the backoff
doBackoffSleeps ==
    /\ doPc = "backoff"
    /\ cancelled
    /\ now' = now + doWaits[Len(doWaits)]
    /\ doPc' = "lock"
    /\ UNCHANGED <<cancelled, clientVars, histVars, genVars, envVars, wfVars, lkVars, teamVars,
                   restVars>>
    /\ UNCHANGED <<doOp, attempts, doErr, doOut, doStart, doWaits, doSends,
                 statusFails, otherFails, lastAttempt>>
doBackoffCancelled ==
    /\ doPc = "backoff"
    /\ cancelled
    /\ doPc' = "done"
    /\ doErr' = ErrContext
    /\ UNCHANGED <<clockVars, clientVars, histVars, genVars, envVars, wfVars, lkVars, teamVars, restVars>>
    /\ UNCHANGED <<doOp, attempts, doOut, doStart, doWaits, doSends,
                 statusFails, otherFails, lastAttempt>>

doIdle ==
    /\ doPc' = "idle"
    /\ doOp' = None
    /\ doStart' = 0
    /\ attempts' = 0
    /\ doErr' = NoErr
    /\ doOut' = NoBody
    /\ statusFails' = 0
    /\ otherFails' = 0
    /\ lastAttempt' = NoErr
    /\ doWaits' = <<>>
    /\ doSends' = 0

----------------------------------------------------------------------------
(* Client.Generate: loadTeamID, the task creation and the polling loop *)

\* loadTeamID: the first organization's id, else the user's own
profileTeamID(p) ==
    IF Len(p.Organizations) > 0 THEN p.Organizations[1] ELSE p.ID

\* uuidRegex.FindString: the leftmost UUID of the URL, "" when there is none
FindUUID(u) ==
    IF \E i \in 1..Len(u) : u[i] \in UUIDs
    THEN u[CHOOSE i \in 1..Len(u) :
              u[i] \in UUIDs /\ \A j \in 1..(i - 1) : u[j] \notin UUIDs]
    ELSE ""

\* the storage URL built from the last UUID of the URL
ToS3URLLast(u) ==
    IF FindUUID(u) = ""
    THEN [err |-> "couldn't find UUID in asset URL", url |-> <<>>]
    ELSE [err |-> "",
          url |-> <<"https://runway-task-artifacts.s3.amazonaws.com/",
                    u[CHOOSE i \in 1..Len(u) :
                          u[i] \in UUIDs /\ \A j \in (i + 1)..Len(u) : u[j] \notin UUIDs],
                    ".mp4">>]

ToS3URL(u) ==
    IF FindUUID(u) = ""
    THEN [err |-> "couldn't find UUID in asset URL", url |-> <<>>]
    ELSE [err |-> "",
          url |-> <<"https://runway-task-artifacts.s3.amazonaws.com/", FindUUID(u), ".mp4">>]

errorResult(msg, err) == [kind |-> "error", msg |-> msg, err |-> err]

\* Generate: case "SUCCEEDED" of the switch on the task status
generateSucceededUnchecked(task) ==
    IF Len(task.Artifacts) = 0
    THEN errorResult("no artifacts returned", NoErr)
    ELSE [kind |-> "Generation",
          ID |-> task.Artifacts[1].ID,
          URL |-> task.Artifacts[1].URL,
          S3URL |-> ToS3URL(task.Artifacts[1].URL).url,
          PreviewURLs |-> task.Artifacts[1].PreviewURLs]
generateSucceeded(task) ==
    IF Len(task.Artifacts) = 0
    THEN errorResult("no artifacts returned", NoErr)
    ELSE IF task.Artifacts[1].URL = <<>>
    THEN errorResult("empty artifact url", NoErr)
    ELSE IF ToS3URL(task.Artifacts[1].URL).err # ""
    THEN errorResult(ToS3URL(task.Artifacts[1].URL).err, NoErr)
    ELSE [kind |-> "Generation",
          ID |-> task.Artifacts[1].ID,
          URL |-> task.Artifacts[1].URL,
          S3URL |-> ToS3URL(task.Artifacts[1].URL).url,
          PreviewURLs |-> task.Artifacts[1].PreviewURLs]

\* Generate: the default case of the switch, &Error{data: taskResp.Task}
generateFailedNoData(task) == [kind |-> "Error", data |-> NoTask]
generateFailed(task) == [kind |-> "Error", data |-> task]

\* Generate: the switch on the task status
generateSwitchPollAll(task) ==
    CASE task.Status = "SUCCEEDED" -> generateSucceeded(task)
      [] OTHER -> [kind |-> "wait"]
generateSwitch(task) ==
    CASE task.Status = "SUCCEEDED" -> generateSucceeded(task)
      [] task.Status \in WaitingStatuses -> [kind |-> "wait"]
      [] OTHER -> generateFailed(task)

\* Error.Reason
Reason(e) == e.data.Error.Reason

HasPrefix(s, p) == Len(s) >= Len(p) /\ SubSeq(s, 1, Len(p)) = p

\* Error.Temporary
TemporaryEmptyFatal(e) ==
    CASE Reason(e) = ReasonSafetyText -> FALSE
      [] HasPrefix(Reason(e), ReasonBadOutputDot) -> TRUE
      [] OTHER -> FALSE
Temporary(e) ==
    CASE Reason(e) = ReasonSafetyText -> FALSE
      [] HasPrefix(Reason(e), ReasonBadOutputDot) -> TRUE
      [] Reason(e) = <<>> -> TRUE
      [] OTHER -> FALSE

generateReturn(r) ==
    /\ genPc' = "done"
    /\ genResult' = r

\* Generate from the seed to the task creation request
generateCreate(req, t, team) ==
    IF req.Model \in {"gen2", "gen3"}
    THEN /\ createReq' = createTaskRequest(req, team)
         /\ doEnter("tasks", t)
         /\ genPc' = "tasks"
         /\ submissions' = submissions + 1
         /\ UNCHANGED genResult
    ELSE /\ generateReturn(errorResult("unknown model", NoErr))
         /\ doIdle
         /\ UNCHANGED <<submissions, refused, createReq>>

\* Generate is called
Generate(req) ==
    /\ genPc = "idle" /\ doPc = "idle"
    /\ opCount < MaxOps
    /\ opCount' = opCount + 1
    /\ UNCHANGED <<faults, wfVars, lkVars, teamVars, restVars>>
    /\ genReq' = req
    /\ IF teamID # 0
       THEN generateCreate(req, now, teamID)
       ELSE /\ doEnter("profile", now)
            /\ genPc' = "loadTeamID"
            /\ UNCHANGED <<genResult, submissions, createReq>>
    /\ UNCHANGED <<clockVars, clientVars, lastSendAt>>
    /\ UNCHANGED <<taskResp, polls, observed, observedAt, temporary>>

\* loadTeamID returns into Generate
generateTeamLoaded ==
    /\ genPc = "loadTeamID" /\ doPc = "done"
    /\ IF doErr # NoErr
       THEN /\ generateReturn(errorResult("couldn't load team id", doErr))
            /\ UNCHANGED <<teamID, doVars, submissions, refused, createReq, assigned>>
       ELSE /\ teamID' = profileTeamID(doOut)
            /\ assigned' = Append(assigned, profileTeamID(doOut))
            /\ generateCreate(genReq, now, profileTeamID(doOut))
    /\ UNCHANGED <<clockVars, expiration, wait, permit, lastGrant, lastSendAt, envVars, wfVars,
                   lkVars, lookups, fetched, restVars>>
    /\ UNCHANGED <<genReq, taskResp, polls, observed, observedAt, temporary>>

\* the task creation or a re-fetch returns: one turn of the switch
generateObserve ==
    /\ genPc \in {"tasks", "task"} /\ doPc = "done"
    /\ IF doErr # NoErr
       THEN /\ generateReturn(errorResult(IF genPc = "tasks" THEN "couldn't create task"
                                          ELSE "couldn't get task", doErr))
            /\ UNCHANGED <<taskResp, observed, observedAt>>
       ELSE /\ taskResp' = doOut
            /\ observed' = observed + 1
            /\ observedAt' = now
            /\ IF generateSwitch(doOut).kind = "wait"
               THEN genPc' = "wait" /\ UNCHANGED genResult
               ELSE generateReturn(generateSwitch(doOut))
    /\ UNCHANGED <<clockVars, clientVars, doVars, histVars, envVars, wfVars, lkVars, teamVars, restVars>>
    /\ UNCHANGED <<genReq, submissions, polls, temporary, createReq>>

\* the 5 second wait ends: the task is fetched again; at most `cap`
\* re-fetches of one task are followed
generatePoll(cap) ==
    /\ genPc = "wait"
    /\ ~cancelled
    /\ polls < cap
    /\ now' = now + PollDelay
    /\ polls' = polls + 1
    /\ doEnter("task", now + PollDelay)
    /\ genPc' = "task"
    /\ UNCHANGED <<cancelled, clientVars, lastSendAt, envVars, wfVars, lkVars, teamVars, restVars>>
    /\ UNCHANGED <<genReq, taskResp, genResult, submissions, observed, observedAt, temporary,
                   createReq>>

generateWaitTimer == generatePoll(MaxPolls)

\* ctx.Done() during the 5 second wait
generateWaitCancelled ==
    /\ genPc = "wait"
    /\ cancelled
    /\ generateReturn(errorResult("context", ErrContext))
    /\ UNCHANGED <<clockVars, clientVars, doVars, histVars, envVars, wfVars, lkVars, teamVars, restVars>>
    /\ UNCHANGED <<genReq, taskResp, submissions, polls, observed, observedAt, temporary,
                   createReq>>

\* the caller asks the returned *Error whether it may resubmit
ErrorTemporary ==
    /\ genPc = "done"
    /\ genResult.kind = "Error"
    /\ temporary = None
    /\ temporary' = IF Temporary(genResult) THEN "true" ELSE "false"
    /\ UNCHANGED <<clockVars, clientVars, doVars, histVars, envVars, wfVars, lkVars, teamVars, restVars>>
    /\ UNCHANGED <<genPc, genReq, taskResp, genResult, submissions, polls, observed, observedAt,
                   createReq>>

genIdle ==
    /\ genPc' = "idle"
    /\ genReq' = NoRequest
    /\ taskResp' = NoTask
    /\ genResult' = NoResult
    /\ submissions' = 0
    /\ createReq' = NoPayload
    /\ polls' = 0
    /\ observed' = 0
    /\ observedAt' = 0
    /\ temporary' = None

----------------------------------------------------------------------------
(* Client.Upload, and the request doAttempt builds for each call of do.    *)
(* Names, paths and content types are strings the code inspects by prefix  *)
(* or by suffix, so they are sequences of tokens: x.jpg is <<"x", ".",     *)
(* "jpg">>, and an absolute URL starts with the token "http".              *)

\* file names handed to Upload
Names == {<<"x", ".", "jpg">>, <<"x", ".", "png">>, <<"x">>, <<"x", ".">>}
\* byte payloads, the empty one among them
Datas == {<<>>, <<1>>, <<2, 3>>}

\* filepath.Ext: the suffix that starts at the last dot, "" when there is none
Ext(name) ==
    IF \E i \in 1..Len(name) : name[i] = "."
    THEN SubSeq(name, CHOOSE i \in 1..Len(name) :
                          name[i] = "." /\ \A j \in (i + 1)..Len(name) : name[j] # ".",
                Len(name))
    ELSE <<>>

\* strings.TrimPrefix(s, prefix)
TrimPrefix(s, prefix) ==
    IF HasPrefix(s, prefix) THEN SubSeq(s, Len(prefix) + 1, Len(s)) ELSE s

\* Upload: ext := strings.TrimPrefix(".", filepath.Ext(name))
uploadExtension(name) == TrimPrefix(<<".">>, Ext(name))

\* md5.Sum: a digest that the bytes determine
md5Sum(data) == [md5 |-> data]

\* the values of `in` that reach do
uploadFile(data, extension) == [kind |-> "file", data |-> data, extension |-> extension]
jsonBody(v) == [kind |-> "json", value |-> v]
NoIn == [kind |-> "nil"]

\* doAttempt: the body and the content type of the request
requestBody(in) ==
    IF in.kind = "file" THEN in.data
    ELSE IF in.kind = "json" THEN <<in.value>>
    ELSE <<>>
contentType(in) ==
    IF in.kind = "file"
    THEN <<"image/">> \o (IF in.extension = <<"jpg">> THEN <<"jpeg">> ELSE in.extension)
    ELSE <<"application/json">>

APIBase == "https://api.runwayml.com/v1/"
absolute(path) == HasPrefix(path, <<"http">>)

\* doAttempt: the URL of the request, and uploadLen
requestURL(path) == IF absolute(path) THEN path ELSE <<APIBase>> \o path
uploadLen(path, in) == IF absolute(path) THEN Len(requestBody(in)) ELSE 0

\* addHeaders: the three cases of its switch, as the headers that differ
addHeadersAlwaysAuth(path, ctype, len) ==
    [authorization |-> TRUE, contentType |-> ctype, contentLength |-> len]
addHeaders(path, ctype, len) ==
    IF len > 0
    THEN [authorization |-> FALSE, contentType |-> ctype, contentLength |-> len]
    ELSE IF ~absolute(path)
    THEN [authorization |-> TRUE, contentType |-> ctype, contentLength |-> 0]
    ELSE [authorization |-> FALSE, contentType |-> <<>>, contentLength |-> 0]

\* the request of one call of do, with what the call returned
Request(kind, method, path, in, ok, resp) ==
    [kind |-> kind, method |-> method, path |-> path, url |-> requestURL(path),
     in |-> in, body |-> requestBody(in),
     headers |-> addHeaders(path, contentType(in), uploadLen(path, in)),
     ok |-> ok, resp |-> resp]

\* Upload: the types of the two sub-uploads, in the order of the loop
uploadTypesPreviewFirst == <<"DATASET_PREVIEW", "DATASET">>
uploadTypes == <<"DATASET", "DATASET_PREVIEW">>

\* the requests of Upload
uploadRequest(name, t) == [Filename |-> name, NumberOfParts |-> 1, Type |-> t]
uploadCompleteRequest(etag) == [Parts |-> <<[PartNumber |-> 1, ETag |-> etag]>>]
datasetRequest(name, id, previewID, team) ==
    [FileCount |-> 1, Name |-> name, UploadID |-> id, PreviewUploadIDs |-> <<previewID>>,
     AsTeamID |-> team]

\* what the remote can answer to them
UploadURL(k) == <<"http", "s://bucket/", k>>
uploadResponse(id, us) == [ID |-> id, UploadURLs |-> us]
UploadResponses ==
    {uploadResponse(id, us) : id \in {"", "u1", "u2"},
                              us \in {<<>>, <<UploadURL("a")>>,
                                      <<UploadURL("b"), UploadURL("a")>>}}
uploadCompleteResponse(u) == [URL |-> u]
UploadCompleteResponses == {uploadCompleteResponse(u) : u \in {"", "img-a", "img-b"}}
datasetResponse(id, u) == [ID |-> id, URL |-> u]
DatasetResponses == {datasetResponse(id, u) : id \in {"", "d1"}, u \in {"", "set"}}
NoResponse == [none |-> TRUE]

\* the locals of a call of Upload
NoUploadCall ==
    [pc |-> "idle", name |-> <<>>, data |-> <<>>, t |-> 0,
     uploadResp |-> uploadResponse("", <<>>), imageURL |-> "",
     uploadID |-> "", previewUploadID |-> "",
     ret |-> [imageURL |-> "", id |-> "", err |-> ""]]

NoUpload ==
    /\ up = NoUploadCall
    /\ sent = <<>>

\* what these steps leave alone
uploadRest == <<clockVars, clientVars, doVars, histVars, genVars, envVars, wfVars, lkVars,
                teamVars, tempVars, wireVars, taskVars>>

\* return "", "", err
uploadError(msg) ==
    [up EXCEPT !.pc = "done", !.ret = [imageURL |-> "", id |-> "", err |-> msg]]

\* Upload is called; `sent` holds the requests of the last operation
Upload(name, data) ==
    /\ up.pc = "idle"
    /\ up' = [NoUploadCall EXCEPT !.pc = "slot", !.name = name, !.data = data, !.t = 1]
    /\ sent' = <<>>
    /\ UNCHANGED uploadRest

\* c.do(ctx, "POST", "uploads", uploadReq, &uploadResp) and the check of the URLs
uploadSlot ==
    /\ up.pc = "slot"
    /\ \E ok \in BOOLEAN, resp \in UploadResponses :
          /\ ~ok => resp = uploadResponse("", <<>>)
          /\ sent' = Append(sent, Request("slot", "POST", <<"uploads">>,
                                          jsonBody(uploadRequest(up.name, uploadTypes[up.t])),
                                          ok, resp))
          /\ up' = IF ~ok THEN uploadError("couldn't obtain upload url")
                   ELSE IF Len(resp.UploadURLs) = 0 THEN uploadError("no upload urls returned")
                   ELSE [up EXCEPT !.pc = "put", !.uploadResp = resp]
    /\ UNCHANGED uploadRest

\* c.do(ctx, "PUT", uploadURL, file, nil)
uploadPut ==
    /\ up.pc = "put"
    /\ \E ok \in BOOLEAN :
          /\ sent' = Append(sent, Request("put", "PUT", up.uploadResp.UploadURLs[1],
                                          uploadFile(up.data, uploadExtension(up.name)),
                                          ok, NoResponse))
          /\ up' = IF ~ok THEN uploadError("couldn't upload file")
                   ELSE [up EXCEPT !.pc = "complete"]
    /\ UNCHANGED uploadRest

\* c.do(ctx, "POST", completeURL, completeReq, &completeResp), the check of the
\* URL, and the end of one turn of the loop
uploadComplete ==
    /\ up.pc = "complete"
    /\ \E ok \in BOOLEAN, resp \in UploadCompleteResponses :
          /\ ~ok => resp = uploadCompleteResponse("")
          /\ sent' = Append(sent, Request("complete", "POST",
                                          <<"uploads/", up.uploadResp.ID, "/complete">>,
                                          jsonBody(uploadCompleteRequest(md5Sum(up.data))),
                                          ok, resp))
          /\ up' = IF ~ok THEN uploadError("couldn't complete upload")
                   ELSE IF resp.URL = "" THEN uploadError("empty image url")
                   ELSE [up EXCEPT
                           !.imageURL = resp.URL,
                           !.uploadID = IF uploadTypes[up.t] = "DATASET"
                                        THEN up.uploadResp.ID ELSE @,
                           !.previewUploadID = IF uploadTypes[up.t] = "DATASET_PREVIEW"
                                               THEN up.uploadResp.ID ELSE @,
                           !.t = IF up.t < Len(uploadTypes) THEN up.t + 1 ELSE @,
                           !.pc = IF up.t < Len(uploadTypes) THEN "slot" ELSE "dataset"]
    /\ UNCHANGED uploadRest

\* c.do(ctx, "POST", "datasets", datasetReq, &datasetResp), the check of the
\* URL and of the id, and the return
uploadDataset ==
    /\ up.pc = "dataset"
    /\ \E ok \in BOOLEAN, resp \in DatasetResponses :
          /\ ~ok => resp = datasetResponse("", "")
          /\ sent' = Append(sent, Request("dataset", "POST", <<"datasets">>,
                                          jsonBody(datasetRequest(up.name, up.uploadID,
                                                                  up.previewUploadID, teamID)),
                                          ok, resp))
          /\ up' = IF ~ok THEN uploadError("couldn't create dataset")
                   ELSE IF resp.URL = "" \/ resp.ID = ""
                   THEN uploadError("empty dataset url or id")
                   ELSE [up EXCEPT !.pc = "done",
                                   !.ret = [imageURL |-> up.imageURL, id |-> resp.ID,
                                            err |-> ""]]
    /\ UNCHANGED uploadRest

\* the URLs of artifacts
DownloadURLs == {<<"http", "s://cdn/", "video.mp4">>, <<"http", "://cdn/", "video.mp4">>}

\* Download: c.do(ctx, "GET", u, nil, nil)
Download(u) ==
    /\ up.pc = "idle"
    /\ \E ok \in BOOLEAN :
          sent' = <<Request("download", "GET", u, NoIn, ok, NoResponse)>>
    /\ UNCHANGED <<up, uploadRest>>

\* Upload has returned to its caller
uploadReturned ==
    /\ up.pc = "done"
    /\ up' = NoUploadCall
    /\ UNCHANGED <<sent, uploadRest>>

----------------------------------------------------------------------------
(* The temporary files of the commands.  extend.Run and loop.Run name their *)
(* temporary files after the input file, in the directory os.TempDir()      *)
(* gives, which is the same for every command started on one machine.       *)

\* input paths: a directory and the tokens of the file name
Path(dir, name) == [dir |-> dir, name |-> name]
Inputs == {Path("a/", <<"clip", ".", "mp4">>), Path("b/", <<"clip", ".", "mp4">>),
           Path("a/", <<"film", ".", "mp4">>), Path("a/", <<"clip", ".", "mp4", ".", "mov">>)}
NoInput == Path("", <<>>)

TempDir == "tmp/"

\* filepath.Base and strings.TrimSuffix
Base(path) == path.name
TrimSuffix(s, suffix) ==
    IF Len(s) >= Len(suffix) /\ SubSeq(s, Len(s) - Len(suffix) + 1, Len(s)) = suffix
    THEN SubSeq(s, 1, Len(s) - Len(suffix))
    ELSE s

\* extend.Run: base, and the names made from it with fmt.Sprintf
extendBase(input) == TrimSuffix(Base(input), Ext(input.name))
extendVideo(input, n) == Path(TempDir, extendBase(input) \o <<"-", ToString(n), ".", "mp4">>)
extendImage(input, n) == Path(TempDir, extendBase(input) \o <<"-", ToString(n), ".", "jpg">>)
extendListFile(input) == Path(TempDir, extendBase(input) \o <<"-", "list", ".", "txt">>)

\* loop.Run: tmp and list
loopTemp(input) == Path(TempDir, Base(input) \o <<"-", "reversed", ".", "mp4">>)
loopListFile(input) == Path(TempDir, Base(input) \o <<"-", "list", ".", "txt">>)

Touch(op, file) == [op |-> op, file |-> file]

\* extend.Run with an output: what it does to its temporary files, in order
extendTouches(input, n) ==
    <<Touch("write", extendVideo(input, 0))>>
    \o [k \in 1..(5 * n) |->
          LET i == (k - 1) \div 5
              j == (k - 1) % 5
          IN  CASE j = 0 -> Touch("read", extendVideo(input, i))
                [] j = 1 -> Touch("write", extendImage(input, i))
                [] j = 2 -> Touch("read", extendImage(input, i))
                [] j = 3 -> Touch("remove", extendImage(input, i))
                [] OTHER -> Touch("write", extendVideo(input, i + 1))]
    \o <<Touch("write", extendListFile(input)), Touch("read", extendListFile(input))>>
    \o [k \in 1..(n + 1) |-> Touch("read", extendVideo(input, k - 1))]
    \o <<Touch("remove", extendListFile(input))>>
    \o [k \in 1..(n + 1) |-> Touch("remove", extendVideo(input, k - 1))]

\* loop.Run: the reversed video, the list, and ffmpeg reading both
loopTouches(input) ==
    <<Touch("write", loopTemp(input)), Touch("write", loopListFile(input)),
      Touch("read", loopListFile(input)), Touch("read", loopTemp(input))>>

commandTouches(c) ==
    IF c.cmd = "extend" THEN extendTouches(c.input, c.N)
    ELSE IF c.cmd = "loop" THEN loopTouches(c.input)
    ELSE <<>>

Command(cmd, input, n) == [cmd |-> cmd, input |-> input, N |-> n, pc |-> 0]
NoCommand == Command(None, NoInput, 0)

NoRuns ==
    /\ runs = [p \in Callers |-> NoCommand]
    /\ touched = {}

\* what these steps leave alone
tempRest == <<clockVars, clientVars, doVars, histVars, genVars, envVars, wfVars, lkVars,
              teamVars, uploadVars, wireVars, taskVars>>

\* a command is started, in this process or in another on the machine
commandStart(p, cmd, input) ==
    /\ runs[p] = NoCommand
    /\ runs' = [runs EXCEPT ![p] = Command(cmd, input, IF cmd = "extend" THEN 1 ELSE 0)]
    /\ UNCHANGED <<touched, tempRest>>

\* the command's next step on a temporary file
commandStep(p) ==
    /\ runs[p].pc < Len(commandTouches(runs[p]))
    /\ runs' = [runs EXCEPT ![p].pc = @ + 1]
    /\ touched' = touched \cup
                     {[by |-> p, op |-> commandTouches(runs[p])[runs[p].pc + 1].op,
                       file |-> commandTouches(runs[p])[runs[p].pc + 1].file]}
    /\ UNCHANGED tempRest

(* doAttempt: json.Unmarshal(respBody, out) into a taskResponse.  A JSON     *)
(* value is null, a string, a number, an object or an array; a struct field *)
(* accepts the values of its Go type, and null leaves it at its zero value. *)

JNull == [t |-> "null"]
JString(s) == [t |-> "string", v |-> s]
JNumber(n, whole) == [t |-> "number", v |-> n, whole |-> whole]
JObject(o) == [t |-> "object", v |-> o]
JArray(a) == [t |-> "array", v |-> a]

\* the Go types of the fields of taskData, taskError and artifact that the
\* poller reads or that the remote sends as null
taskDataFields ==
    [status |-> "string", error |-> "struct", progressText |-> "string",
     placeInLine |-> "int", estimatedTimeToStartSeconds |-> "float64",
     artifacts |-> "slice", sharedAsset |-> "any"]
taskErrorFields ==
    [message |-> "string", reason |-> "string", moderation_category |-> "string"]
artifactFields ==
    [id |-> "string", url |-> "string", previewUrls |-> "slice"]

\* json.Unmarshal of one value into a field of the given type fails
unmarshalErrStrict(type, j) ==
    CASE type = "any" -> FALSE
      [] type = "string" -> j.t # "string"
      [] type = "int" -> j.t # "number" \/ ~j.whole
      [] type = "float64" -> j.t # "number"
      [] type = "struct" -> j.t # "object"
      [] OTHER -> j.t # "array"
unmarshalErr(type, j) ==
    CASE j.t = "null" -> FALSE
      [] type = "any" -> FALSE
      [] type = "string" -> j.t # "string"
      [] type = "int" -> j.t # "number" \/ ~j.whole
      [] type = "float64" -> j.t # "number"
      [] type = "struct" -> j.t # "object"
      [] OTHER -> j.t # "array"

\* the same for an object into a struct, field by field
unmarshalStructErr(fields, j) ==
    \/ unmarshalErr("struct", j)
    \/ /\ j.t = "object"
       /\ \E f \in DOMAIN fields : unmarshalErr(fields[f], j.v[f])

\* the value a field holds afterwards: the zero value after null
unmarshalValue(j, zero) == IF j.t = "null" THEN zero ELSE j.v

unmarshalArtifact(j) ==
    IF j.t = "null" THEN Artifact(<<>>)
    ELSE [ID |-> unmarshalValue(j.v.id, ""), URL |-> unmarshalValue(j.v.url, <<>>),
          PreviewURLs |-> IF j.v.previewUrls.t = "null" THEN <<>> ELSE <<"preview">>]

unmarshalTaskError(j) ==
    IF j.t = "null" THEN NoTaskError
    ELSE [Message |-> unmarshalValue(j.v.message, ""),
          Reason |-> unmarshalValue(j.v.reason, <<>>),
          ModerationCategory |-> unmarshalValue(j.v.moderation_category, "")]

\* json.Unmarshal(respBody, &taskResp) and what doAttempt returns
unmarshalTask(w) ==
    IF \/ \E f \in DOMAIN taskDataFields : unmarshalErr(taskDataFields[f], w[f])
       \/ unmarshalStructErr(taskErrorFields, w.error) /\ w.error.t # "null"
       \/ /\ w.artifacts.t = "array"
          /\ \E k \in 1..Len(w.artifacts.v) :
                /\ w.artifacts.v[k].t # "null"
                /\ unmarshalStructErr(artifactFields, w.artifacts.v[k])
    THEN [done |-> TRUE, err |-> ErrDecode, task |-> NoTask]
    ELSE [done |-> TRUE, err |-> NoErr,
          task |-> taskData(unmarshalValue(w.status, ""),
                            unmarshalTaskError(w.error),
                            IF w.artifacts.t = "null" THEN <<>>
                            ELSE [k \in 1..Len(w.artifacts.v) |->
                                    unmarshalArtifact(w.artifacts.v[k])])]
NoDecoded == [done |-> FALSE, err |-> NoErr, task |-> NoTask]

\* what the remote can send for each field
artifactWire(u) ==
    JObject([id |-> JString("art"), url |-> u, previewUrls |-> JArray(<<JString("preview")>>)])
taskErrorWire(r) ==
    JObject([message |-> JString("rejected"), reason |-> r, moderation_category |-> JNull])
TaskWires ==
    [status : {JString("SUCCEEDED"), JString("RUNNING"), JNull, JNumber(1, TRUE)},
     error : {JNull, taskErrorWire(JString(ReasonSafetyText)), taskErrorWire(JNumber(7, TRUE)),
              JString("boom")},
     progressText : {JNull, JString("queued"), JNumber(1, TRUE)},
     placeInLine : {JNull, JNumber(3, TRUE), JNumber(3, FALSE), JString("3")},
     estimatedTimeToStartSeconds : {JNull, JNumber(8, FALSE)},
     artifacts : {JNull, JArray(<<>>), JArray(<<artifactWire(JString(URLOne))>>),
                  JArray(<<artifactWire(JNull)>>), JArray(<<artifactWire(JNumber(1, TRUE))>>)},
     sharedAsset : {JNull, JString("shared")}]

NoWire ==
    /\ wire = NoBody
    /\ decoded = NoDecoded

\* what these steps leave alone
wireRest == <<clockVars, clientVars, doVars, histVars, genVars, envVars, wfVars, lkVars,
              teamVars, uploadVars, tempVars, taskVars>>

\* the remote answers 200 with a task
respond(w) ==
    /\ wire = NoBody
    /\ wire' = w
    /\ UNCHANGED <<decoded, wireRest>>

\* doAttempt decodes the body into out
doAttemptUnmarshal ==
    /\ wire # NoBody
    /\ ~decoded.done
    /\ decoded' = unmarshalTask(wire)
    /\ UNCHANGED <<wire, wireRest>>

----------------------------------------------------------------------------
(* Generate: from the configuration to the options of the task creation   *)
(* request. A string is the sequence of its characters; the characters of *)
(* a prompt are "p" and those of an asset name are "a".                    *)

\* the longest prompt and asset name
MaxLen == 22
\* v[:20]
NameLimit == 20
Repeat(c, n) == [i \in 1..n |-> c]
Prompts == {Repeat("p", n) : n \in 0..MaxLen}
AssetNames == {Repeat("a", n) : n \in 0..MaxLen}
Sizes == {0, 640}

\* a GenerateRequest with the fields the options are built from
TaskConfigs ==
    [Model : Models, AssetURL : {"", "asset"}, Extend : BOOLEAN,
     Prompt : Prompts, AssetName : AssetNames, Width : Sizes, Height : Sizes]

\* rand.Intn(1000000000) + 2000000000, printed
Seed == "seed"

\* if len(v) > 20 { v = v[:20] }
Truncate(v) == IF Len(v) > NameLimit THEN SubSeq(v, 1, NameLimit) ELSE v

\* the fragments appended to the name: the prompt, then the asset name
nameFragments(c) ==
    (IF Len(c.Prompt) > 0 THEN <<", ">> \o Truncate(c.Prompt) ELSE <<>>)
    \o (IF Len(c.AssetName) > 0 THEN <<", ">> \o Truncate(c.AssetName) ELSE <<>>)

\* the task name of each model
taskName(c) ==
    IF c.Model = "gen2"
    THEN <<"Gen-2 ", Seed, ", ">> \o c.Prompt \o nameFragments(c)
    ELSE <<"Gen-3 Alpha ", Seed>> \o nameFragments(c)

\* width, height and resolution
taskSize(c) ==
    LET imageURL == IF c.Extend THEN "" ELSE c.AssetURL
    IN  IF imageURL = ""
        THEN IF c.Width = 0 \/ c.Height = 0
             THEN [Width |-> 1280, Height |-> 768, Resolution |-> ""]
             ELSE [Width |-> c.Width, Height |-> c.Height, Resolution |-> ""]
        ELSE [Width |-> 0, Height |-> 0, Resolution |-> "720p"]

\* the options of the request; gen2Options has no resolution field
taskOptions(c) ==
    [built |-> TRUE,
     TaskType |-> IF c.Model = "gen2" THEN "gen2" ELSE "gen3a",
     Seconds |-> IF c.Model = "gen2" THEN 4 ELSE 10,
     Name |-> taskName(c),
     InitImage |-> IF c.Extend THEN "" ELSE c.AssetURL,
     InitVideo |-> IF c.Model = "gen2" /\ c.Extend THEN c.AssetURL ELSE "",
     Width |-> taskSize(c).Width,
     Height |-> taskSize(c).Height,
     Resolution |-> IF c.Model = "gen2" THEN "" ELSE taskSize(c).Resolution]

NoTaskConfig ==
    [Model |-> "", AssetURL |-> "", Extend |-> FALSE, Prompt |-> <<>>,
     AssetName |-> <<>>, Width |-> 0, Height |-> 0]
NoTaskOptions == [built |-> FALSE]

NoTaskBuilt ==
    /\ genCfg = NoTaskConfig
    /\ genTask = NoTaskOptions

\* what this step leaves alone
taskRest == <<clockVars, clientVars, doVars, histVars, genVars, envVars, wfVars, lkVars,
              teamVars, uploadVars, tempVars, wireVars>>

\* Generate builds the request of a call; an unknown model builds none
generateOptions ==
    /\ genCfg = NoTaskConfig
    /\ \E c \in TaskConfigs :
          /\ genCfg' = c
          /\ genTask' = IF c.Model \in {"gen2", "gen3"} THEN taskOptions(c)
                        ELSE NoTaskOptions
    /\ UNCHANGED taskRest

\* Generate has returned: the next call starts from its own configuration
generateOptionsReturn ==
    /\ genCfg # NoTaskConfig
    /\ genCfg' = NoTaskConfig
    /\ genTask' = NoTaskOptions
    /\ UNCHANGED taskRest

----------------------------------------------------------------------------
(* The callers of the client *)

\* Download and Delete: one do call each
Call(op) ==
    /\ genPc = "idle" /\ doPc = "idle"
    /\ opCount < MaxOps
    /\ opCount' = opCount + 1
    /\ UNCHANGED <<faults, wfVars, lkVars, teamVars, restVars>>
    /\ doEnter(op, now)
    /\ UNCHANGED <<clockVars, clientVars, lastSendAt, genVars>>

\* the operation has returned to its caller
Return ==
    /\ \/ genPc = "done"
       \/ genPc = "idle" /\ doPc = "done"
    /\ doIdle
    /\ genIdle
    /\ UNCHANGED <<clockVars, clientVars, histVars, envVars, wfVars, lkVars, teamVars, restVars>>

\* the interrupt signal cancels the context
Cancel ==
    /\ ~cancelled
    /\ doPc # "idle" \/ genPc # "idle"
    /\ cancelled' = TRUE
    /\ UNCHANGED <<now, clientVars, doVars, histVars, genVars, envVars, wfVars, lkVars, teamVars, restVars>>

\* the team id has not been looked up
NoLookups ==
    /\ lookups = 0
    /\ assigned = <<>>
    /\ fetched = [p \in Callers |-> 0]

\* no caller is at the rate limiter
NoCallers ==
    /\ callers = [p \in Callers |-> "idle"]
    /\ queue = <<>>
    /\ prevGrant = NoGrant
    /\ lastRelease = NoGrant

\* no command runs
NoRun ==
    /\ cfg = [cmd |-> None, N |-> 0, Output |-> NoRef, Image |-> NoRef, Text |-> ""]
    /\ wfPc = "idle"
    /\ loopI = 0
    /\ vid = NoRef
    /\ videos = <<>> /\ urls = <<>>
    /\ gen = NoGeneration
    /\ deferred = <<>>
    /\ fs = {}
    /\ manifest = <<>>
    /\ result = None
    /\ wfLog = <<>> /\ genCalls = <<>> /\ uploaded = <<>>
    /\ peak = 0
    /\ clean = TRUE

\* decoded expirations of the token, all in the future at construction
Expirations == {3, 33, 1000}

\* runway.New, at time 0, with a credential that expires at one of `exps`
New(exps) ==
    /\ now = 0
    /\ cancelled = FALSE
    /\ expiration \in exps
    /\ teamID = 0
    /\ cfgWait = 0
    /\ wait = NewWait(cfgWait)
    /\ permit = FALSE
    /\ lastGrant = NoGrant
    /\ doPc = "idle" /\ doOp = None /\ doStart = 0 /\ attempts = 0
    /\ doErr = NoErr /\ doOut = NoBody /\ doWaits = <<>> /\ doSends = 0
    /\ statusFails = 0 /\ otherFails = 0 /\ lastAttempt = NoErr
    /\ refused = 0
    /\ lastSendAt = NoGrant
    /\ genPc = "idle" /\ genReq = NoRequest /\ taskResp = NoTask /\ genResult = NoResult
    /\ submissions = 0 /\ polls = 0 /\ observed = 0 /\ observedAt = 0 /\ temporary = None
    /\ createReq = NoPayload
    /\ NoLookups
    /\ opCount = 0
    /\ faults = 0
    /\ NoRun
    /\ NoCallers
    /\ NoUpload
    /\ NoRuns
    /\ NoWire
    /\ NoTaskBuilt

Init == New(Expirations)

Next ==
    \/ \E op \in {"download", "delete"} : Call(op)
    \/ \E req \in GenerateRequests : Generate(req)
    \/ doAttemptLock
    \/ doAttemptSend
    \/ doBackoffTimer
    \/ doBackoffCancelled
    \/ generateTeamLoaded
    \/ generateObserve
    \/ generateWaitTimer
    \/ generateWaitCancelled
    \/ ErrorTemporary
    \/ Return
    \/ Cancel

Spec == Init /\ [][Next]_vars

----------------------------------------------------------------------------
(* Properties of the executor and of the poller, checked under Spec *)

\* the task status last observed ended the task without success
ObservedFailure ==
    /\ observed >= 1
    /\ taskResp.Status \notin WaitingStatuses \cup {"SUCCEEDED"}

\* C1: a do call whose first N attempts each failed with a retried status, and
\* whose context was not cancelled, has made min(N+1, 3) physical attempts when it
\* returns; it returns success iff N <= 2, and otherwise the error of the third
\* attempt.
C1_RetryAccounting ==
    (doPc = "done" /\ doErr # ErrExpired /\ ~cancelled /\ otherFails = 0) =>
        /\ doSends = Min(statusFails + 1, 3)
        /\ (doErr = NoErr) <=> (statusFails <= 2)
        /\ statusFails >= 3 => doErr = lastAttempt /\ doErr.kind = "status"

C1_Witness ==
    /\ doPc = "done" /\ ~cancelled /\ otherFails = 0
    /\ statusFails = 2 /\ doErr = NoErr /\ doSends = 3

\* C2: a do call invoked after the expiration returns the token-expired error
\* without a single physical send, and once a call has been refused every later
\* call is refused the same way.
C2_ExpiredRefused ==
    /\ (doPc # "idle" /\ doStart > expiration) =>
          (doPc = "done" /\ doErr = ErrExpired /\ doSends = 0)
    /\ refused > 0 =>
          /\ now > expiration
          /\ doPc # "idle" => (doPc = "done" /\ doErr = ErrExpired /\ doSends = 0)

C2_Witness ==
    /\ refused >= 2 /\ opCount = 2
    /\ doPc = "done" /\ doErr = ErrExpired /\ doSends = 0

\* C3: no physical request is sent after the expiration has passed.
C3_NoSendAfterExpiration == lastSendAt <= expiration

\* C4: Generate returns a Generation only when the last observed status is
\* SUCCEEDED and an artifact has a non-empty URL; when the last observed status
\* is a terminal failure it returns an *Error carrying the remote status, message,
\* reason and moderation category.
C4_GenerationOnlyOnSuccess ==
    genPc = "done" =>
        /\ genResult.kind = "Generation" =>
              /\ observed >= 1
              /\ taskResp.Status = "SUCCEEDED"
              /\ \E i \in 1..Len(taskResp.Artifacts) : taskResp.Artifacts[i].URL # <<>>
        /\ ObservedFailure =>
              /\ genResult.kind = "Error"
              /\ genResult.data.Status = taskResp.Status
              /\ genResult.data.Error = taskResp.Error

C4_Witness ==
    /\ genPc = "done" /\ polls = 1 /\ observed = 2
    /\ taskResp.Status = "CANCELLED"
    /\ genResult.kind = "Error"

\* C5: on a terminal failure status Generate returns at once an error whose
\* Reason() is the remote reason, with no poll after that status, and a Generate
\* call submits the task once.
C5_FailureReturnsAtOnce ==
    /\ submissions <= 1
    /\ (genPc = "done" /\ observed >= 1) => submissions = 1
    /\ (genPc = "done" /\ ObservedFailure) =>
          /\ genResult.kind = "Error"
          /\ Reason(genResult) = taskResp.Error.Reason
          /\ now = observedAt
          /\ polls = observed - 1

C5_Witness ==
    /\ genPc = "done" /\ polls = 1
    /\ taskResp.Status = "FAILED"
    /\ genResult.kind = "Error"
    /\ Reason(genResult) = ReasonSafetyText

\* C6: Temporary() is decided by the reason alone: false for SAFETY.INPUT.TEXT,
\* true for a reason beginning with INTERNAL.BAD_OUTPUT. and for the empty reason,
\* false for every other reason.
C6_TemporaryByReason ==
    temporary # None =>
        LET r == genResult.data.Error.Reason
            internal == Len(r) >= 4 /\ SubSeq(r, 1, 4) = <<"INTERNAL", ".", "BAD_OUTPUT", ".">>
        IN  /\ r = <<"SAFETY", ".", "INPUT", ".", "TEXT">> => temporary = "false"
            /\ internal => temporary = "true"
            /\ r = <<>> => temporary = "true"
            /\ (r # <<"SAFETY", ".", "INPUT", ".", "TEXT">> /\ ~internal /\ r # <<>>)
                   => temporary = "false"

C6_Witness ==
    /\ temporary = "true"
    /\ genResult.data.Error.Reason = ReasonBadOutput
    /\ genResult.data.Status = "FAILED"

----------------------------------------------------------------------------
(* The commands extend.Run and generate.Run.  A run is one call of Run: the *)
(* client operations it makes are steps that succeed or fail, and a step    *)
(* that takes the run's context fails once the context is cancelled.        *)

\* of the client's state a run changes the team id and nothing else
idleVars == <<now, expiration, wait, permit, lastGrant, doVars, histVars, genVars, envVars,
              lkVars, teamVars, restVars>>

InputFile  == Ref("input", 0)
ImageFile  == Ref("image", 0)
OutputFile == Ref("output", 0)
TempVideo  == Ref("temp", 0)
ListFile   == Ref("list", 0)
\* base-n.mp4 and base-n.jpg in the temporary directory
Segment(n) == Ref("mp4", n)
Frame(n)   == Ref("jpg", n)

Step(op, src, dst) == [op |-> op, src |-> src, dst |-> dst]

Segments(s) == Cardinality({f \in s : f.kind = "mp4"})

fsBecomes(s) ==
    /\ fs' = s
    /\ peak' = Max(peak, Segments(s))

\* return err: the deferred calls run next
returnError ==
    /\ result' = "error"
    /\ wfPc' = "deferred"
    /\ clean' = FALSE

\* return nil
returnNil ==
    /\ result' = "nil"
    /\ wfPc' = "deferred"

\* the URL and the asset id of the last successful Upload
assetID  == uploaded[Len(uploaded)]
imageURL == IF uploaded = <<>> THEN NoRef ELSE Ref("img", assetID)

\* the Generation that Generate call number k returns
Generation(k) == [URL |-> Ref("gen", k), S3URL |-> Ref("s3", k)]

\* defer func() { client.Delete(deleteCTX, assetID) }(): deferred calls run
\* last in, first out
deferDeleteFirstOnly(stack, id) == IF stack = <<>> THEN <<id>> ELSE stack
deferDelete(stack, id) == <<id>> \o stack

\* client.Generate as a step of a run: the request is recorded, the team id is
\* loaded on the way when it was not, and the step succeeds or fails
clientGenerate(req, ok) ==
    /\ ok => ~cancelled
    /\ \E loaded \in BOOLEAN :
          /\ ok => loaded
          /\ teamID' = IF teamID = 0 /\ loaded THEN 7 ELSE teamID
    /\ IF ok
       THEN /\ gen' = Generation(Len(genCalls) + 1)
            /\ genCalls' = Append(genCalls, [req |-> req, URL |-> Ref("gen", Len(genCalls) + 1)])
            /\ wfLog' = Append(wfLog, Step("generate", req.AssetURL, Ref("gen", Len(genCalls) + 1)))
       ELSE /\ gen' = NoGeneration
            /\ genCalls' = Append(genCalls, [req |-> req, URL |-> NoRef])
            /\ wfLog' = Append(wfLog, Step("generate", req.AssetURL, NoRef))
            /\ returnError

\* client.Upload as a step of a run
clientUploadSwallow(name, ok) ==
    /\ ok => ~cancelled
    /\ IF ok
       THEN /\ uploaded' = Append(uploaded, Len(uploaded) + 1)
            /\ deferred' = <<Len(uploaded) + 1>> \o deferred
            /\ wfLog' = Append(wfLog, Step("upload", name, Ref("img", Len(uploaded) + 1)))
       ELSE /\ wfPc' = "generate"
            /\ wfLog' = Append(wfLog, Step("upload", name, NoRef))
            /\ UNCHANGED <<uploaded, deferred, result, clean>>
clientUpload(name, ok) ==
    /\ ok => ~cancelled
    /\ IF ok
       THEN /\ uploaded' = Append(uploaded, Len(uploaded) + 1)
            /\ deferred' = deferDelete(deferred, Len(uploaded) + 1)
            /\ wfLog' = Append(wfLog, Step("upload", name, Ref("img", Len(uploaded) + 1)))
       ELSE /\ returnError
            /\ wfLog' = Append(wfLog, Step("upload", name, NoRef))
            /\ UNCHANGED <<uploaded, deferred>>

\* client.Download as a step of a run; a failed write may leave the file
clientDownload(u, output, ok, left) ==
    /\ ok => ~cancelled /\ left
    /\ left => ~cancelled
    /\ fsBecomes(IF left THEN fs \cup {output} ELSE fs)
    /\ IF ok
       THEN wfLog' = Append(wfLog, Step("download", u, output))
       ELSE returnError /\ wfLog' = Append(wfLog, Step("download", u, NoRef))

extendRequest(url) ==
    [AssetURL |-> url, Prompt |-> "", Extend |-> FALSE]

\* Run of extend: the checks of the configuration and runway.New
extendStart ==
    /\ cfg.cmd = "extend" /\ wfPc = "start"
    /\ \E ok \in BOOLEAN :
          IF cfg.N < 1 \/ ~ok
          THEN returnError
          ELSE wfPc' = "copy" /\ UNCHANGED <<result, clean>>
    /\ UNCHANGED <<cfg, loopI, vid, videos, urls, gen, deferred, fs, manifest,
                   wfLog, genCalls, uploaded, peak>>
    /\ UNCHANGED <<cancelled, teamID, idleVars>>

\* copyFile(cfg.Input, vid): the destination exists once it has been created
extendCopy ==
    /\ cfg.cmd = "extend" /\ wfPc = "copy"
    /\ vid' = Segment(0)
    /\ \E ok \in BOOLEAN, created \in BOOLEAN :
          /\ ok => created
          /\ fsBecomes(IF created THEN fs \cup {Segment(0)} ELSE fs)
          /\ IF ok
             THEN /\ videos' = <<Segment(0)>>
                  /\ loopI' = 0
                  /\ wfPc' = "extract"
                  /\ wfLog' = Append(wfLog, Step("copy", InputFile, Segment(0)))
                  /\ UNCHANGED <<result, clean>>
             ELSE /\ returnError
                  /\ UNCHANGED <<videos, loopI, wfLog>>
    /\ UNCHANGED <<cfg, urls, gen, deferred, manifest, genCalls, uploaded>>
    /\ UNCHANGED <<cancelled, teamID, idleVars>>

\* ffmpeg writes the last frame of vid to base-i.jpg
extendExtract ==
    /\ cfg.cmd = "extend" /\ wfPc = "extract"
    /\ \E ok \in BOOLEAN, written \in BOOLEAN :
          /\ ok => ~cancelled /\ written
          /\ fsBecomes(IF written THEN fs \cup {Frame(loopI)} ELSE fs)
          /\ IF ok
             THEN /\ wfPc' = "read"
                  /\ wfLog' = Append(wfLog, Step("extract", vid, Frame(loopI)))
                  /\ UNCHANGED <<result, clean>>
             ELSE /\ returnError
                  /\ UNCHANGED wfLog
    /\ UNCHANGED <<cfg, loopI, vid, videos, urls, gen, deferred, manifest,
                   genCalls, uploaded>>
    /\ UNCHANGED <<cancelled, teamID, idleVars>>

\* os.ReadFile(img)
extendRead ==
    /\ cfg.cmd = "extend" /\ wfPc = "read"
    /\ \E ok \in BOOLEAN :
          IF ok /\ Frame(loopI) \in fs
          THEN wfPc' = "upload" /\ UNCHANGED <<result, clean>>
          ELSE returnError
    /\ UNCHANGED <<cfg, loopI, vid, videos, urls, gen, deferred, fs, manifest,
                   wfLog, genCalls, uploaded, peak>>
    /\ UNCHANGED <<cancelled, teamID, idleVars>>

\* client.Upload and the deferred Delete of the asset
extendUpload ==
    /\ cfg.cmd = "extend" /\ wfPc = "upload"
    /\ \E ok \in BOOLEAN :
          /\ clientUpload(Frame(loopI), ok)
          /\ ok => wfPc' = "generate" /\ UNCHANGED <<result, clean>>
    /\ UNCHANGED <<cfg, loopI, vid, videos, urls, gen, fs, manifest, genCalls, peak>>
    /\ UNCHANGED <<cancelled, teamID, idleVars>>

\* urls = append(urls, gen.URL)
appendURLFront(us, g) == <<g.URL>> \o us
appendURL(us, g) == Append(us, g.URL)

\* client.Generate from the uploaded frame
extendGenerate ==
    /\ cfg.cmd = "extend" /\ wfPc = "generate"
    /\ \E ok \in BOOLEAN :
          /\ clientGenerate(extendRequest(imageURL), ok)
          /\ IF ok
             THEN /\ urls' = appendURL(urls, gen')
                  /\ wfPc' = "removeImage"
                  /\ UNCHANGED <<result, clean>>
             ELSE UNCHANGED urls
    /\ UNCHANGED <<cfg, loopI, vid, videos, deferred, fs, manifest, uploaded, peak>>
    /\ UNCHANGED <<cancelled, idleVars>>

\* os.Remove(img): a failure is logged and the run goes on
extendRemoveImage ==
    /\ cfg.cmd = "extend" /\ wfPc = "removeImage"
    /\ \E ok \in BOOLEAN :
          /\ fsBecomes(IF ok THEN fs \ {Frame(loopI)} ELSE fs)
          /\ clean' = (clean /\ ok)
    /\ wfPc' = "download"
    /\ UNCHANGED <<cfg, loopI, vid, videos, urls, gen, deferred, manifest, result,
                   wfLog, genCalls, uploaded>>
    /\ UNCHANGED <<cancelled, teamID, idleVars>>

\* client.Download of the clip to base-(i+1).mp4, and the loop's step
extendDownload ==
    /\ cfg.cmd = "extend" /\ wfPc = "download"
    /\ vid' = Segment(loopI + 1)
    /\ \E ok \in BOOLEAN, left \in BOOLEAN :
          /\ clientDownload(gen.URL, Segment(loopI + 1), ok, left)
          /\ IF ok
             THEN /\ videos' = Append(videos, Segment(loopI + 1))
                  /\ loopI' = loopI + 1
                  /\ wfPc' = IF loopI + 1 < cfg.N THEN "extract"
                             ELSE IF cfg.Output # NoRef THEN "list" ELSE "removeVideos"
                  /\ UNCHANGED <<result, clean>>
             ELSE UNCHANGED <<videos, loopI>>
    /\ UNCHANGED <<cfg, urls, gen, deferred, manifest, genCalls, uploaded>>
    /\ UNCHANGED <<cancelled, teamID, idleVars>>

Range(q) == {q[k] : k \in 1..Len(q)}

\* the manifest names the videos, one line each, in the order of the slice
listDataTail(vs) == Tail(vs)
listData(vs) == vs

\* os.WriteFile(list, listData): a failed write may leave the file
extendList ==
    /\ cfg.cmd = "extend" /\ wfPc = "list"
    /\ \E ok \in BOOLEAN, created \in BOOLEAN :
          /\ ok => created
          /\ fsBecomes(IF created THEN fs \cup {ListFile} ELSE fs)
          /\ IF ok
             THEN /\ manifest' = listData(videos)
                  /\ wfPc' = "concat"
                  /\ UNCHANGED <<result, clean>>
             ELSE /\ returnError
                  /\ UNCHANGED manifest
    /\ UNCHANGED <<cfg, loopI, vid, videos, urls, gen, deferred, wfLog, genCalls, uploaded>>
    /\ UNCHANGED <<cancelled, teamID, idleVars>>

\* ffmpeg joins the files of the manifest into cfg.Output
extendConcat ==
    /\ cfg.cmd = "extend" /\ wfPc = "concat"
    /\ \E ok \in BOOLEAN, written \in BOOLEAN :
          /\ ok => ~cancelled /\ written /\ Range(manifest) \subseteq fs
          /\ fsBecomes(IF written THEN fs \cup {cfg.Output} ELSE fs)
          /\ IF ok
             THEN /\ wfPc' = "removeList"
                  /\ wfLog' = Append(wfLog, Step("concat", ListFile, cfg.Output))
                  /\ UNCHANGED <<result, clean>>
             ELSE /\ returnError
                  /\ wfLog' = Append(wfLog, Step("concat", ListFile, NoRef))
    /\ UNCHANGED <<cfg, loopI, vid, videos, urls, gen, deferred, manifest,
                   genCalls, uploaded>>
    /\ UNCHANGED <<cancelled, teamID, idleVars>>

\* os.Remove(list): a failure is logged and the run goes on
extendRemoveList ==
    /\ cfg.cmd = "extend" /\ wfPc = "removeList"
    /\ \E ok \in BOOLEAN :
          /\ fsBecomes(IF ok THEN fs \ {ListFile} ELSE fs)
          /\ clean' = (clean /\ ok)
    /\ wfPc' = "removeVideos"
    /\ UNCHANGED <<cfg, loopI, vid, videos, urls, gen, deferred, manifest, result,
                   wfLog, genCalls, uploaded>>
    /\ UNCHANGED <<cancelled, teamID, idleVars>>

\* os.Remove of every video, failures logged, and return nil
extendRemoveVideos ==
    /\ cfg.cmd = "extend" /\ wfPc = "removeVideos"
    /\ \E kept \in SUBSET Range(videos) :
          /\ fsBecomes(fs \ (Range(videos) \ kept))
          /\ clean' = (clean /\ kept = {})
    /\ result' = "nil"
    /\ wfPc' = "deferred"
    /\ UNCHANGED <<cfg, loopI, vid, videos, urls, gen, deferred, manifest,
                   wfLog, genCalls, uploaded>>
    /\ UNCHANGED <<cancelled, teamID, idleVars>>

\* what client.Delete can end in: nil, the error of do, or a response whose
\* success field is false
DeleteOutcomes == {"deleted", "error", "unsuccessful"}

\* the deferred func logs the error of Delete; what Run returns stays as it was
afterDeleteRaise(r, outcome) == IF outcome = "deleted" THEN r ELSE "error"
afterDelete(r, outcome) == r

\* a deferred call runs when Run returns: client.Delete under a context of its
\* own, its error logged
runDeferred ==
    /\ wfPc = "deferred" /\ deferred # <<>>
    /\ \E outcome \in DeleteOutcomes :
          /\ wfLog' = Append(wfLog, Step("delete", Ref("asset", Head(deferred)),
                                         Ref(outcome, 0)))
          /\ result' = afterDelete(result, outcome)
    /\ deferred' = Tail(deferred)
    /\ UNCHANGED <<cfg, wfPc, loopI, vid, videos, urls, gen, fs, manifest,
                   genCalls, uploaded, peak, clean>>
    /\ UNCHANGED <<cancelled, teamID, idleVars>>

\* Run has returned to main
runReturned ==
    /\ wfPc = "deferred" /\ deferred = <<>>
    /\ wfPc' = "returned"
    /\ UNCHANGED <<cfg, loopI, vid, videos, urls, gen, deferred, fs, manifest, result,
                   wfLog, genCalls, uploaded, peak, clean>>
    /\ UNCHANGED <<cancelled, teamID, idleVars>>

\* the interrupt signal cancels the context of the run
runCancel ==
    /\ wfPc \notin {"idle", "returned"}
    /\ ~cancelled
    /\ cancelled' = TRUE
    /\ UNCHANGED <<teamID, idleVars, wfVars>>

\* the first request of generate.Run and the request of an extension
firstRequest ==
    [AssetURL |-> imageURL, Prompt |-> cfg.Text, Extend |-> FALSE]

continuationFromAsset(g) ==
    [AssetURL |-> imageURL, Prompt |-> "", Extend |-> TRUE]
continuation(g) ==
    [AssetURL |-> g.URL, Prompt |-> "", Extend |-> TRUE]

\* the output path, else a temporary path when the video was extended, else none
videoPath ==
    IF cfg.Output # NoRef THEN cfg.Output
    ELSE IF cfg.N > 0 THEN TempVideo ELSE NoRef

\* after the last Generate: the download, or the printing and return nil
afterGenerate ==
    IF videoPath # NoRef
    THEN wfPc' = "download" /\ UNCHANGED <<result, clean>>
    ELSE returnNil /\ UNCHANGED clean

\* Run of generate: the checks of the configuration and runway.New
generateRunStart ==
    /\ cfg.cmd = "generate" /\ wfPc = "start"
    /\ \E ok \in BOOLEAN :
          IF (cfg.Image = NoRef /\ cfg.Text = "") \/ ~ok
          THEN returnError
          ELSE /\ wfPc' = IF cfg.Image # NoRef THEN "read" ELSE "generate"
               /\ UNCHANGED <<result, clean>>
    /\ UNCHANGED <<cfg, loopI, vid, videos, urls, gen, deferred, fs, manifest,
                   wfLog, genCalls, uploaded, peak>>
    /\ UNCHANGED <<cancelled, teamID, idleVars>>

\* os.ReadFile(cfg.Image)
generateRunRead ==
    /\ cfg.cmd = "generate" /\ wfPc = "read"
    /\ \E ok \in BOOLEAN :
          IF ok
          THEN wfPc' = "upload" /\ UNCHANGED <<result, clean>>
          ELSE returnError
    /\ UNCHANGED <<cfg, loopI, vid, videos, urls, gen, deferred, fs, manifest,
                   wfLog, genCalls, uploaded, peak>>
    /\ UNCHANGED <<cancelled, teamID, idleVars>>

\* client.Upload and the deferred Delete of the asset
generateRunUpload ==
    /\ cfg.cmd = "generate" /\ wfPc = "upload"
    /\ \E ok \in BOOLEAN :
          /\ clientUpload(cfg.Image, ok)
          /\ ok => wfPc' = "generate" /\ UNCHANGED <<result, clean>>
    /\ UNCHANGED <<cfg, loopI, vid, videos, urls, gen, fs, manifest, genCalls, peak>>
    /\ UNCHANGED <<cancelled, teamID, idleVars>>

\* the first client.Generate
generateRunGenerate ==
    /\ cfg.cmd = "generate" /\ wfPc = "generate"
    /\ \E ok \in BOOLEAN :
          /\ clientGenerate(firstRequest, ok)
          /\ ok => IF cfg.N > 0
                   THEN wfPc' = "extend" /\ UNCHANGED <<result, clean>>
                   ELSE afterGenerate
    /\ loopI' = 0
    /\ UNCHANGED <<cfg, vid, videos, urls, deferred, fs, manifest, uploaded, peak>>
    /\ UNCHANGED <<cancelled, idleVars>>

\* one turn of the extension loop
generateRunExtend ==
    /\ cfg.cmd = "generate" /\ wfPc = "extend"
    /\ \E ok \in BOOLEAN :
          /\ clientGenerate(continuation(gen), ok)
          /\ IF ok
             THEN /\ loopI' = loopI + 1
                  /\ IF loopI + 1 < cfg.N
                     THEN wfPc' = "extend" /\ UNCHANGED <<result, clean>>
                     ELSE afterGenerate
             ELSE UNCHANGED loopI
    /\ UNCHANGED <<cfg, vid, videos, urls, deferred, fs, manifest, uploaded, peak>>
    /\ UNCHANGED <<cancelled, idleVars>>

\* client.Download of the last generation, the printing and return nil
generateRunDownload ==
    /\ cfg.cmd = "generate" /\ wfPc = "download"
    /\ \E ok \in BOOLEAN, left \in BOOLEAN :
          /\ clientDownload(gen.URL, videoPath, ok, left)
          /\ ok => returnNil /\ UNCHANGED clean
    /\ UNCHANGED <<cfg, loopI, vid, videos, urls, gen, deferred, manifest,
                   genCalls, uploaded>>
    /\ UNCHANGED <<cancelled, teamID, idleVars>>

\* the configurations of a run
ExtendConfigs ==
    [cmd : {"extend"}, N : 0..MaxN, Output : {NoRef, OutputFile},
     Image : {NoRef}, Text : {""}]
GenerateConfigs ==
    [cmd : {"generate"}, N : 0..MaxN, Output : {NoRef, OutputFile},
     Image : {NoRef, ImageFile}, Text : {"", "a car"}]

\* main starts one command with a fresh context and a client not yet built
InitRun ==
    /\ now = 0
    /\ cancelled = FALSE
    /\ expiration = 1000
    /\ teamID = 0
    /\ cfgWait = 0
    /\ wait = NewWait(cfgWait)
    /\ permit = FALSE
    /\ lastGrant = NoGrant
    /\ doPc = "idle" /\ doOp = None /\ doStart = 0 /\ attempts = 0
    /\ doErr = NoErr /\ doOut = NoBody /\ doWaits = <<>> /\ doSends = 0
    /\ statusFails = 0 /\ otherFails = 0 /\ lastAttempt = NoErr
    /\ refused = 0
    /\ lastSendAt = NoGrant
    /\ genPc = "idle" /\ genReq = NoRequest /\ taskResp = NoTask /\ genResult = NoResult
    /\ submissions = 0 /\ polls = 0 /\ observed = 0 /\ observedAt = 0 /\ temporary = None
    /\ createReq = NoPayload
    /\ NoLookups
    /\ opCount = 0
    /\ faults = 0
    /\ cfg \in ExtendConfigs \cup GenerateConfigs
    /\ wfPc = "start"
    /\ loopI = 0
    /\ vid = NoRef
    /\ videos = <<>> /\ urls = <<>>
    /\ gen = NoGeneration
    /\ deferred = <<>>
    /\ fs = {}
    /\ manifest = <<>>
    /\ result = None
    /\ wfLog = <<>> /\ genCalls = <<>> /\ uploaded = <<>>
    /\ peak = 0
    /\ clean = TRUE
    /\ NoCallers
    /\ NoUpload
    /\ NoRuns
    /\ NoWire
    /\ NoTaskBuilt

NextRun ==
    \/ extendStart
    \/ extendCopy
    \/ extendExtract
    \/ extendRead
    \/ extendUpload
    \/ extendGenerate
    \/ extendRemoveImage
    \/ extendDownload
    \/ extendList
    \/ extendConcat
    \/ extendRemoveList
    \/ extendRemoveVideos
    \/ generateRunStart
    \/ generateRunRead
    \/ generateRunUpload
    \/ generateRunGenerate
    \/ generateRunExtend
    \/ generateRunDownload
    \/ runDeferred
    \/ runReturned
    \/ runCancel

SpecRun == InitRun /\ [][NextRun]_vars

----------------------------------------------------------------------------
(* Properties of the commands, checked under SpecRun *)

\* the extractions, uploads, generations and downloads of the run, in order
Work == LET IsWork(e) == e.op \in {"extract", "upload", "generate", "download"}
        IN  SelectSeq(wfLog, IsWork)

Count(op) == Cardinality({k \in 1..Len(wfLog) : wfLog[k].op = op})

\* C7: an extend run with n >= 1 and an output path whose every step succeeds
\* makes n extractions, n uploads, n generations and n downloads, in that order
\* within each iteration; iteration i+1 extracts from the clip that iteration i
\* downloaded; n+1 segment files exist at peak; the manifest lists the segments
\* 0..n in order; no segment file and no manifest file is left on return.
C7_ExtendRun ==
    (cfg.cmd = "extend" /\ wfPc = "returned" /\ result = "nil" /\ clean
        /\ cfg.Output # NoRef) =>
        /\ cfg.N >= 1
        /\ Len(Work) = 4 * cfg.N
        /\ \A k \in 0..(cfg.N - 1) :
              /\ Work[4 * k + 1] = Step("extract", Segment(k), Frame(k))
              /\ Work[4 * k + 2].op = "upload" /\ Work[4 * k + 2].src = Frame(k)
              /\ Work[4 * k + 3].op = "generate"
              /\ Work[4 * k + 3].src = Work[4 * k + 2].dst
              /\ Work[4 * k + 4] = Step("download", Work[4 * k + 3].dst, Segment(k + 1))
        /\ peak = cfg.N + 1
        /\ manifest = [k \in 1..(cfg.N + 1) |-> Segment(k - 1)]
        /\ \A f \in fs : f.kind # "mp4" /\ f # ListFile

C7_Witness ==
    /\ cfg.cmd = "extend" /\ wfPc = "returned" /\ result = "nil" /\ clean
    /\ cfg.Output # NoRef /\ cfg.N = 2
    /\ Count("download") = 2 /\ peak = 3 /\ OutputFile \in fs

\* C8: a generate run that returns nil has made exactly 1 + Extend Generate
\* calls, one after another; call k+1 is a continuation whose input is the URL
\* that call k returned and whose prompt is empty; only the last call's result
\* is downloaded: to the output path when one is given, to a temporary path
\* when none is given and Extend > 0, and not at all when none is given and
\* Extend = 0.
C8_GenerateRun ==
    (cfg.cmd = "generate" /\ wfPc = "returned" /\ result = "nil") =>
        /\ Len(genCalls) = 1 + cfg.N
        /\ Count("generate") = 1 + cfg.N
        /\ genCalls[1].req.Extend = FALSE
        /\ \A k \in 1..cfg.N :
              /\ genCalls[k + 1].req.Extend = TRUE
              /\ genCalls[k + 1].req.AssetURL = genCalls[k].URL
              /\ genCalls[k + 1].req.Prompt = ""
        /\ LET last == genCalls[1 + cfg.N].URL
               loads == SelectSeq(wfLog, LAMBDA e : e.op = "download")
           IN  loads = IF cfg.Output # NoRef THEN <<Step("download", last, cfg.Output)>>
                       ELSE IF cfg.N > 0 THEN <<Step("download", last, TempVideo)>>
                       ELSE <<>>

C8_Witness ==
    /\ cfg.cmd = "generate" /\ wfPc = "returned" /\ result = "nil"
    /\ cfg.N = 2 /\ cfg.Output = NoRef /\ Len(genCalls) = 3
    /\ TempVideo \in fs

\* C10: in a generate or extend run, Delete is invoked exactly once before the
\* run returns for every asset whose upload succeeded, whether the run returns
\* nil, the error of a later step or after a cancellation; and once a Delete has
\* been invoked no generation, download or other step of the run follows.
C10_DeleteEveryAsset ==
    /\ \A p \in 1..Len(wfLog) :
          wfLog[p].op = "delete" =>
              /\ wfLog[p].src.idx \in Range(uploaded)
              /\ \A q \in (p + 1)..Len(wfLog) :
                    wfLog[q].op = "delete" /\ wfLog[q].src # wfLog[p].src
    /\ wfPc = "returned" =>
          \A a \in Range(uploaded) :
              Cardinality({p \in 1..Len(wfLog) :
                              /\ wfLog[p].op = "delete"
                              /\ wfLog[p].src = Ref("asset", a)}) = 1

C10_Witness ==
    /\ wfPc = "returned" /\ cancelled /\ result = "error"
    /\ cfg.cmd = "extend" /\ Len(uploaded) = 2 /\ Count("delete") = 2
    /\ Count("generate") = 2

----------------------------------------------------------------------------
(* Concurrent callers of doAttempt that share the rate limiter of one       *)
(* client.  Each caller takes a permit before its physical request and      *)
(* gives it back when doAttempt returns.                                    *)

Remove(q, p) == SelectSeq(q, LAMBDA x : x # p)

\* c.ratelimit.Lock(ctx) is called: the caller waits its turn
ratelimitLock(p) ==
    /\ callers[p] = "idle"
    /\ callers' = [callers EXCEPT ![p] = "waiting"]
    /\ queue' = Append(queue, p)
    /\ UNCHANGED <<cfgWait, prevGrant, lastRelease>>
    /\ UNCHANGED <<clockVars, clientVars, doVars, histVars, genVars, envVars, wfVars,
                   teamVars, restVars>>

\* the limiter grants the permit to the first caller waiting, no earlier than
\* wait after the grant before; the caller goes on to c.client.Do
ratelimitGrant ==
    /\ queue # <<>>
    /\ ~permit
    /\ GrantTime = now
    /\ permit' = TRUE
    /\ prevGrant' = lastGrant
    /\ lastGrant' = now
    /\ callers' = [callers EXCEPT ![Head(queue)] = "holding"]
    /\ queue' = Tail(queue)
    /\ UNCHANGED <<cfgWait, lastRelease>>
    /\ UNCHANGED <<clockVars, expiration, teamID, wait, doVars, histVars, genVars,
                   envVars, wfVars, teamVars, restVars>>

\* defer unlock(): doAttempt returns and the permit is given back
unlock(p) ==
    /\ callers[p] = "holding"
    /\ callers' = [callers EXCEPT ![p] = "idle"]
    /\ permit' = FALSE
    /\ lastRelease' = now
    /\ UNCHANGED <<cfgWait, queue, prevGrant>>
    /\ UNCHANGED <<clockVars, expiration, teamID, wait, lastGrant, doVars, histVars,
                   genVars, envVars, wfVars, teamVars, restVars>>

\* the context of a waiting caller is cancelled: Lock returns without a permit
ratelimitCancelled(p) ==
    /\ callers[p] = "waiting"
    /\ callers' = [callers EXCEPT ![p] = "idle"]
    /\ queue' = Remove(queue, p)
    /\ UNCHANGED <<cfgWait, prevGrant, lastRelease>>
    /\ UNCHANGED <<clockVars, clientVars, doVars, histVars, genVars, envVars, wfVars,
                   teamVars, restVars>>

\* a second passes
Tick ==
    /\ now < MaxTime
    /\ now' = now + 1
    /\ UNCHANGED <<cancelled, clientVars, doVars, histVars, genVars, envVars, wfVars,
                   lkVars, teamVars, restVars>>

\* the waits a client can be configured with: none given, or two seconds
Waits == {0, 2}

\* runway.New with a configured wait, at time 0
InitLimiter ==
    /\ now = 0
    /\ cancelled = FALSE
    /\ expiration = 1000
    /\ teamID = 0
    /\ cfgWait \in Waits
    /\ wait = NewWait(cfgWait)
    /\ permit = FALSE
    /\ lastGrant = NoGrant
    /\ doPc = "idle" /\ doOp = None /\ doStart = 0 /\ attempts = 0
    /\ doErr = NoErr /\ doOut = NoBody /\ doWaits = <<>> /\ doSends = 0
    /\ statusFails = 0 /\ otherFails = 0 /\ lastAttempt = NoErr
    /\ refused = 0
    /\ lastSendAt = NoGrant
    /\ genPc = "idle" /\ genReq = NoRequest /\ taskResp = NoTask /\ genResult = NoResult
    /\ submissions = 0 /\ polls = 0 /\ observed = 0 /\ observedAt = 0 /\ temporary = None
    /\ createReq = NoPayload
    /\ NoLookups
    /\ opCount = 0
    /\ faults = 0
    /\ NoRun
    /\ NoCallers
    /\ NoUpload
    /\ NoRuns
    /\ NoWire
    /\ NoTaskBuilt

NextLimiter ==
    \/ \E p \in Callers : ratelimitLock(p)
    \/ ratelimitGrant
    \/ \E p \in Callers : unlock(p)
    \/ \E p \in Callers : ratelimitCancelled(p)
    \/ Tick

SpecLimiter == InitLimiter /\ [][NextLimiter]_vars

\* C9: whatever the number of callers sharing the limiter, at most one permit
\* is outstanding at any time, and two permits granted one after the other are
\* granted at least the configured wait apart (one second when none is
\* configured), counted from grant to grant and not from release to grant.
C9_LimiterSpacing ==
    /\ Cardinality({p \in Callers : callers[p] = "holding"}) = IF permit THEN 1 ELSE 0
    /\ prevGrant # NoGrant =>
          lastGrant - prevGrant >= IF cfgWait = 0 THEN 1 ELSE cfgWait

C9_Witness ==
    /\ prevGrant # NoGrant /\ cfgWait = 2
    /\ lastRelease > prevGrant
    /\ lastGrant - prevGrant = 2
    /\ lastGrant - lastRelease < 2
    /\ permit /\ queue # <<>>

\* a step of the log that failed
Failed(e) == e.dst = NoRef

\* C11: when an extend run returns after the concatenation step ran, whether it
\* succeeded or failed, no intermediate clip file and no manifest file is left
\* (removals that themselves fail set aside).
C11_CleanupAfterConcat ==
    (cfg.cmd = "extend" /\ wfPc = "returned" /\ Count("concat") = 1
        /\ (result = "nil" => clean)) =>
        \A f \in fs : f.kind # "mp4" /\ f # ListFile

\* C12: once the upload, the generation or the download of an iteration of an
\* extend run has failed, no step of a later iteration runs and no
\* concatenation is attempted (only the deferred deletions follow), the run
\* returns the error, and the segment files of the iterations before are still
\* there when it returns.
C12_FailureAborts ==
    \A p \in 1..Len(wfLog) :
        (cfg.cmd = "extend" /\ Failed(wfLog[p])
            /\ wfLog[p].op \in {"upload", "generate", "download"}) =>
            /\ wfPc \in {"deferred", "returned"}
            /\ result = "error"
            /\ \A q \in (p + 1)..Len(wfLog) : wfLog[q].op = "delete"
            /\ Count("concat") = 0
            /\ \A k \in 0..loopI : Segment(k) \in fs

C12_Witness ==
    /\ cfg.cmd = "extend" /\ wfPc = "returned" /\ result = "error"
    /\ cfg.N = 2 /\ loopI = 1
    /\ Count("download") = 2 /\ Failed(wfLog[Len(wfLog) - 2])
    /\ wfLog[Len(wfLog) - 2].op = "download"
    /\ {Segment(0), Segment(1)} \subseteq fs

\* C13: a Delete that fails during the cleanup, by an error of the request or
\* by a response without success, leaves what the run returns as it was, and
\* the deletions deferred for the other assets still run: every uploaded asset
\* has had its Delete when the run has returned.
C13_DeleteFailureSwallowed ==
    /\ [][(wfPc = "deferred" /\ wfLog' # wfLog) =>
            /\ result' = result
            /\ wfPc' = "deferred"
            /\ deferred' = Tail(deferred)]_vars
    /\ [](wfPc = "returned" =>
            \A a \in Range(uploaded) :
                \E p \in 1..Len(wfLog) :
                    wfLog[p].op = "delete" /\ wfLog[p].src = Ref("asset", a))

C13_Witness ==
    /\ wfPc = "returned" /\ result = "nil" /\ Len(uploaded) = 2
    /\ wfLog[Len(wfLog) - 1] = Step("delete", Ref("asset", 2), Ref("error", 0))
    /\ wfLog[Len(wfLog)] = Step("delete", Ref("asset", 1), Ref("unsuccessful", 0))

----------------------------------------------------------------------------
(* Generate from its first line to the task creation request, by callers    *)
(* that share one client: loadTeamID reads c.teamID, fetches the profile    *)
(* when it is zero and assigns the id; the request then carries c.teamID.   *)

\* what these steps leave alone
createRest == <<clockVars, expiration, wait, permit, lastGrant, doVars, histVars,
                genPc, taskResp, genResult, submissions, polls, observed, observedAt,
                temporary, faults, wfVars, cfgWait, queue, prevGrant, lastRelease,
                restVars>>

\* loadTeamID: if c.teamID != 0 { return nil }, else the profile is requested
loadTeamID(p) ==
    /\ callers[p] = "idle"
    /\ opCount < MaxOps
    /\ opCount' = opCount + 1
    /\ IF teamID # 0
       THEN /\ callers' = [callers EXCEPT ![p] = "create"]
            /\ UNCHANGED lookups
       ELSE /\ callers' = [callers EXCEPT ![p] = "profile"]
            /\ lookups' = lookups + 1
    /\ UNCHANGED <<teamID, assigned, fetched, genReq, createReq, createRest>>

\* loadTeamID: c.do(ctx, "GET", "profile", nil, &resp) returns
loadTeamIDProfile(p) ==
    /\ callers[p] = "profile"
    /\ \/ /\ callers' = [callers EXCEPT ![p] = "idle"]
          /\ UNCHANGED fetched
       \/ \E b \in ProfileBodies \cup {ZeroProfile} :
             /\ fetched' = [fetched EXCEPT ![p] = profileTeamID(b)]
             /\ callers' = [callers EXCEPT ![p] = "assign"]
    /\ UNCHANGED <<teamID, lookups, assigned, genReq, createReq, opCount, createRest>>

\* loadTeamID: c.teamID = ...
loadTeamIDAssign(p) ==
    /\ callers[p] = "assign"
    /\ teamID' = fetched[p]
    /\ assigned' = Append(assigned, fetched[p])
    /\ callers' = [callers EXCEPT ![p] = "create"]
    /\ UNCHANGED <<lookups, fetched, genReq, createReq, opCount, createRest>>

\* Generate: the request is built with AsTeamID: c.teamID
generateBuild(p) ==
    /\ callers[p] = "create"
    /\ \E req \in AllGenerateRequests :
          /\ genReq' = req
          /\ createReq' = IF req.Model \in {"gen2", "gen3"}
                          THEN createTaskRequest(req, teamID) ELSE NoPayload
    /\ callers' = [callers EXCEPT ![p] = "idle"]
    /\ UNCHANGED <<teamID, lookups, assigned, fetched, opCount, createRest>>

\* one caller, one Generate after the other
NextCreate ==
    \/ loadTeamID(1)
    \/ loadTeamIDProfile(1)
    \/ loadTeamIDAssign(1)
    \/ generateBuild(1)

SpecCreate == Init /\ [][NextCreate]_vars

\* callers on goroutines of their own
NextShared ==
    \/ \E p \in Callers : loadTeamID(p)
    \/ \E p \in Callers : loadTeamIDProfile(p)
    \/ \E p \in Callers : loadTeamIDAssign(p)
    \/ \E p \in Callers : generateBuild(p)

SpecShared == Init /\ [][NextShared]_vars

\* C14: on one client whose calls follow one another, no profile lookup is
\* issued once a lookup has succeeded, and from then on c.teamID, which every
\* request carries as its scope, keeps the value that lookup gave.
C14_TeamLoadedOnce ==
    /\ callers[1] = "profile" => assigned = <<>>
    /\ Len(assigned) <= 1
    /\ assigned # <<>> => teamID = assigned[1]

\* C15: when operations run concurrently on a fresh client the profile lookup
\* is performed at most once and c.teamID is assigned at most once.
C15_TeamLoadedOnceShared ==
    /\ lookups <= 1
    /\ Len(assigned) <= 1

\* C16: a task creation request carries an image reference and no video
\* reference when the request is a fresh generation with an asset, the video
\* reference and no image reference when it is an extension, and never both,
\* for gen2 and for gen3.
C16_PayloadInput ==
    createReq # NoPayload =>
        LET image == createReq.InitImage # "" \/ createReq.ImagePrompt # ""
            video == createReq.InitVideo # ""
        IN  /\ ~(image /\ video)
            /\ (~genReq.Extend /\ genReq.AssetURL # "") =>
                  (createReq.InitImage = genReq.AssetURL /\ ~video)
            /\ (genReq.Extend /\ genReq.AssetURL # "") =>
                  (createReq.InitVideo = genReq.AssetURL /\ ~image)

----------------------------------------------------------------------------
(* Properties of the retries of do, checked under Spec *)

\* C17: within one do call the wait that precedes a retry after a retryable
\* status is 30 s when it is the first retry of the call, 60 s when it is the
\* second and 120 s for any later one; a call that fails with retryable
\* statuses only waits 30 s, then 60 s; and a call waits only after such a
\* status.
C17_BackoffWaits ==
    /\ doPc = "backoff" =>
          /\ lastAttempt.kind = "status" /\ lastAttempt.code \in RetryStatuses
          /\ doWaits[Len(doWaits)] =
                IF attempts = 1 THEN 30 ELSE IF attempts = 2 THEN 60 ELSE 120
    /\ otherFails = 0 =>
          \A k \in 1..Len(doWaits) :
              doWaits[k] = IF k = 1 THEN 30 ELSE IF k = 2 THEN 60 ELSE 120
    /\ Len(doWaits) <= statusFails

C17_Witness ==
    /\ doWaits = <<30, 60>> /\ doSends = 3 /\ now >= 90

\* C18: an attempt answered with a status that is neither 200 nor retryable
\* ends the do call at once, on whichever attempt it comes: no attempt and no
\* wait follow, and the error returned carries that status code.
C18_PermanentStatus ==
    (doPc # "idle" /\ lastAttempt.kind = "status"
        /\ lastAttempt.code \notin RetryStatuses \cup {StatusOK}) =>
        /\ doPc = "done"
        /\ doErr = lastAttempt
        /\ errStatusCode(doErr.code) = doErr
        /\ doSends = attempts
        /\ Len(doWaits) = statusFails

C18_Witness ==
    /\ doPc = "done" /\ doErr = errStatusCode(404)
    /\ attempts = 2 /\ doSends = 2 /\ doWaits = <<30>>

\* C19: an attempt that fails with a network timeout is followed by the next
\* attempt with no backoff wait (the next request goes out as soon as the rate
\* limiter grants it), and timeouts count toward the ceiling of 3 attempts.
C19_TimeoutRetried ==
    /\ doSends <= 3
    /\ (doPc # "idle" /\ lastAttempt = ErrTimeout) =>
          /\ attempts < 3 => doPc \in {"lock", "send"}
          /\ attempts >= 3 => (doPc = "done" /\ doErr = ErrTimeout /\ doSends = 3)
          /\ Len(doWaits) <= statusFails
          /\ (doPc = "send" /\ ~cancelled) => now <= lastSendAt + wait

C19_Witness ==
    /\ doPc = "done" /\ doErr = ErrTimeout /\ doSends = 3 /\ otherFails = 3
    /\ doWaits = <<>>

\* C20: an attempt that fails with a transport error that is not a timeout is
\* retried, without delay, while fewer than 3 attempts have been made.
C20_TransportRetried ==
    (doPc # "idle" /\ lastAttempt = ErrTransport /\ attempts < 3) =>
        doPc \in {"lock", "send"}

----------------------------------------------------------------------------
(* Upload and Download on one client, checked under SpecUpload *)

NextUpload ==
    \/ \E name \in Names, data \in Datas : Upload(name, data)
    \/ uploadSlot
    \/ uploadPut
    \/ uploadComplete
    \/ uploadDataset
    \/ uploadReturned
    \/ \E u \in DownloadURLs : Download(u)

SpecUpload == Init /\ [][NextUpload]_vars

\* C21: Upload returns an error whenever a value the remote returned is empty:
\* the list of upload URLs, the upload id or the completion URL of either
\* sub-upload, the dataset URL, the dataset id.
C21_UploadRejectsEmpty ==
    (up.pc = "done" /\ up.ret.err = "") =>
        \A k \in 1..Len(sent) :
            /\ sent[k].kind = "slot" =>
                  (sent[k].resp.UploadURLs # <<>> /\ sent[k].resp.ID # "")
            /\ sent[k].kind = "complete" => sent[k].resp.URL # ""
            /\ sent[k].kind = "dataset" =>
                  (sent[k].resp.URL # "" /\ sent[k].resp.ID # "")

\* C22: the bearer authorization header is attached only to requests whose
\* URL is under the API base path; a binary upload PUT, and any other request
\* whose path is an absolute URL such as a download, carries none, whatever the
\* payload, the empty one included.
C22_BearerOnlyToAPI ==
    \A k \in 1..Len(sent) :
        /\ sent[k].headers.authorization => sent[k].url[1] = "https://api.runwayml.com/v1/"
        /\ sent[k].method = "PUT" => ~sent[k].headers.authorization
        /\ sent[k].path[1] = "http" => ~sent[k].headers.authorization

C22_Witness ==
    /\ \E k \in 1..Len(sent) :
          sent[k].method = "PUT" /\ sent[k].body = <<>> /\ ~sent[k].headers.authorization
    /\ \E k \in 1..Len(sent) :
          sent[k].method = "POST" /\ sent[k].headers.authorization
    /\ up.pc = "done" /\ up.ret.err = ""

----------------------------------------------------------------------------
(* Commands running at the same time, checked under SpecTemp *)

NextTemp ==
    \/ \E p \in Callers, cmd \in {"extend", "loop"}, input \in Inputs :
          commandStart(p, cmd, input)
    \/ \E p \in Callers : commandStep(p)

SpecTemp == Init /\ [][NextTemp]_vars

\* C23: two commands running at the same time on one machine, two extend
\* runs or an extend and a loop run, never read, write or remove the same
\* temporary file, also when their input files have the same base name.
C23_TempFilesOwned ==
    \A x \in touched, y \in touched : x.by # y.by => x.file # y.file

----------------------------------------------------------------------------
(* The URLs an extend run reports, checked under SpecRun *)

----------------------------------------------------------------------------
(* The decoding of task responses, checked under SpecWire *)

NextWire ==
    \/ \E w \in TaskWires : respond(w)
    \/ doAttemptUnmarshal

SpecWire == Init /\ [][NextWire]_vars

\* C25: a task response with status SUCCEEDED, one artifact with a non-empty
\* URL, and error, progressText, placeInLine, estimatedTimeToStartSeconds and
\* sharedAsset present as null decodes without an error, and the poller then
\* takes the SUCCEEDED case with that artifact.
C25_NullFieldsDecode ==
    (/\ decoded.done
     /\ wire.status = JString("SUCCEEDED")
     /\ wire.artifacts = JArray(<<artifactWire(JString(URLOne))>>)
     /\ \A f \in {"error", "progressText", "placeInLine",
                   "estimatedTimeToStartSeconds", "sharedAsset"} : wire[f] = JNull) =>
        /\ decoded.err = NoErr
        /\ decoded.task.Status = "SUCCEEDED"
        /\ decoded.task.Error = NoTaskError
        /\ decoded.task.Artifacts[1].URL = URLOne
        /\ generateSwitch(decoded.task) = generateSucceeded(decoded.task)
        /\ generateSwitch(decoded.task).kind = "Generation"

C25_Witness ==
    /\ decoded.done /\ decoded.err = NoErr
    /\ wire.status = JString("SUCCEEDED")
    /\ wire.artifacts = JArray(<<artifactWire(JString(URLOne))>>)
    /\ \A f \in {"error", "progressText", "placeInLine",
                  "estimatedTimeToStartSeconds", "sharedAsset"} : wire[f] = JNull

----------------------------------------------------------------------------
(* Permits, cancellation and polling, checked under Spec *)

\* C26: every physical send is made under a rate-limit permit taken for that
\* attempt: a send happens only while the permit is held and gives it back,
\* and the permit is only ever taken by the Lock of an attempt about to send,
\* so each retry of do and each re-fetch of the poller takes a permit of its own.
C26_PermitPerSend ==
    [][/\ doSends' > doSends =>
            (permit /\ ~permit' /\ doSends' = doSends + 1 /\ doPc = "send")
       /\ (~permit /\ permit') =>
            (doPc = "lock" /\ doPc' = "send" /\ lastGrant' = now' /\ doSends' = doSends)
       /\ (doPc = "send" /\ doPc' # "send") => ~permit']_vars

C26_Witness ==
    /\ doOp = "task" /\ polls = 1
    /\ attempts = 1 /\ doSends = 1 /\ doPc = "send" /\ permit /\ ~cancelled

\* C27: once the context is cancelled no physical request is sent and the rate
\* limiter gives no permit; a do call cancelled while it waits for a permit or
\* waits out a backoff makes no further wait and returns an error.
C27_CancelledWhileSuspended ==
    [][cancelled =>
          /\ doSends' <= doSends /\ lastSendAt' = lastSendAt
          /\ ~(~permit /\ permit')
          /\ now' = now
          /\ doPc = "backoff" => doPc' \in {"backoff", "done"}
          /\ (doPc \in {"lock", "send", "backoff"} /\ doPc' = "done") =>
                (doErr' # NoErr /\ doSends' = doSends)]_vars

C27_Witness ==
    /\ cancelled /\ doPc = "done" /\ doErr = ErrContext
    /\ lastAttempt.kind = "status" /\ doWaits = <<30>> /\ doSends = 1 /\ now < 30

\* C28: the poller fetches the task again only when the status it last
\* observed was PENDING, RUNNING or THROTTLED and 5 seconds have passed since;
\* when the context is cancelled during that wait it returns the context's
\* error and starts no request at all; and once it has observed a final
\* status it starts no request.
C28_PollAfterWait ==
    [][/\ (polls' = polls + 1 \/ (doOp' = "task" /\ (doOp # "task" \/ doStart' # doStart))) =>
            /\ genPc = "wait" /\ genPc' = "task"
            /\ taskResp.Status \in {"PENDING", "RUNNING", "THROTTLED"}
            /\ ~cancelled
            /\ polls' = polls + 1
            /\ doOp' = "task"
            /\ doStart' = now' /\ now' >= observedAt + 5
       /\ (genPc = "wait" /\ cancelled /\ genPc' # "wait") =>
            /\ genPc' = "done"
            /\ genResult' = errorResult("context", ErrContext)
            /\ polls' = polls
            /\ UNCHANGED <<doVars, lastSendAt>>
       /\ genPc = "done" =>
            /\ doPc' \in {doPc, "idle"}
            /\ doSends' <= doSends /\ lastSendAt' = lastSendAt
            /\ polls' <= polls]_vars

C28_Witness ==
    /\ polls = 1 /\ observed = 2 /\ now >= 5
    /\ genPc = "done" /\ genResult.kind = "Generation"

----------------------------------------------------------------------------
(* The requests of Upload, checked under SpecUpload *)

\* C29: the requests of one Upload are, in this order, for the primary and
\* then for the preview sub-upload: the request of an upload slot, the PUT of
\* the bytes to the first URL returned, the completion with part number 1 and
\* the checksum of the bytes; and then one dataset registration naming both
\* upload ids.  Only the last request made can have failed, and an Upload that
\* returns without error has made all seven.
C29_UploadOrder ==
    (up.pc # "idle") =>
        /\ Len(sent) <= 7
        /\ \A k \in 1..Len(sent) :
              LET r == sent[k]
                  first == IF k <= 3 THEN 1 ELSE 4
              IN  /\ k < Len(sent) => r.ok
                  /\ CASE k \in {1, 4} ->
                            /\ r.method = "POST" /\ r.path = <<"uploads">>
                            /\ r.in.value = [Filename |-> up.name, NumberOfParts |-> 1,
                                             Type |-> IF k = 1 THEN "DATASET"
                                                      ELSE "DATASET_PREVIEW"]
                            /\ r.resp.UploadURLs # <<>>  \/ k = Len(sent)
                       [] k \in {2, 5} ->
                            /\ r.method = "PUT" /\ r.path = sent[first].resp.UploadURLs[1]
                            /\ r.body = up.data
                       [] k \in {3, 6} ->
                            /\ r.method = "POST"
                            /\ r.path = <<"uploads/", sent[first].resp.ID, "/complete">>
                            /\ r.in.value.Parts = <<[PartNumber |-> 1, ETag |-> [md5 |-> up.data]]>>
                            /\ r.in.value = sent[3].in.value
                       [] OTHER ->
                            /\ r.method = "POST" /\ r.path = <<"datasets">>
                            /\ r.in.value.UploadID = sent[1].resp.ID
                            /\ r.in.value.PreviewUploadIDs = <<sent[4].resp.ID>>
        /\ (sent # <<>> /\ ~sent[Len(sent)].ok) => (up.pc = "done" /\ up.ret.err # "")
        /\ (up.pc = "done" /\ up.ret.err = "") => Len(sent) = 7
        /\ up.pc = "done" => sent # <<>>

C29_Witness ==
    /\ up.pc = "done" /\ up.ret.err = "" /\ Len(sent) = 7
    /\ up.data = <<2, 3>>
    /\ sent[1].resp.ID = "u1" /\ sent[4].resp.ID = "u2"
    /\ sent[7].in.value.UploadID = "u1" /\ sent[7].in.value.PreviewUploadIDs = <<"u2">>

\* C30: the PUT of the bytes of a file named x.jpg carries the content type
\* image/jpeg, and that of a file named x.png the content type image/png.
C30_ImageContentType ==
    (up.pc # "idle") =>
        \A k \in 1..Len(sent) :
            (sent[k].method = "PUT" /\ sent[k].body # <<>>) =>
                /\ up.name = <<"x", ".", "jpg">> =>
                      sent[k].headers.contentType = <<"image/", "jpeg">>
                /\ up.name = <<"x", ".", "png">> =>
                      sent[k].headers.contentType = <<"image/", "png">>

----------------------------------------------------------------------------
(* Generate: the Generation built from a SUCCEEDED task.                   *)

\* C31: every Generation returned by Generate has the URL and the preview
\* URLs of the task's first artifact and the storage URL built from the first
\* UUID of that URL; a SUCCEEDED task whose first artifact has a URL without a
\* UUID makes Generate return an error and no Generation.
C31_GenerationURLs ==
    /\ (genPc = "done" /\ genResult.kind = "Generation") =>
          /\ Len(taskResp.Artifacts) > 0
          /\ genResult.URL = taskResp.Artifacts[1].URL
          /\ genResult.PreviewURLs = taskResp.Artifacts[1].PreviewURLs
          /\ genResult.S3URL # <<>>
          /\ \E i \in 1..Len(genResult.URL) :
                /\ genResult.URL[i] \in UUIDs
                /\ \A j \in 1..(i - 1) : genResult.URL[j] \notin UUIDs
                /\ genResult.S3URL =
                      <<"https://runway-task-artifacts.s3.amazonaws.com/",
                        genResult.URL[i], ".mp4">>
    /\ (/\ genPc = "done"
        /\ taskResp.Status = "SUCCEEDED"
        /\ Len(taskResp.Artifacts) > 0
        /\ \A i \in 1..Len(taskResp.Artifacts[1].URL) :
              taskResp.Artifacts[1].URL[i] \notin UUIDs) =>
          genResult.kind = "error"

\* a Generation was returned for a URL that holds two UUIDs
C31_Witness ==
    /\ genPc = "done"
    /\ genResult.kind = "Generation"
    /\ genResult.URL = URLTwo
    /\ genResult.S3URL = <<"https://runway-task-artifacts.s3.amazonaws.com/", "uuid-b", ".mp4">>

----------------------------------------------------------------------------
(* Generate: the options of the task creation request.                     *)

NextTask ==
    \/ generateOptions
    \/ generateOptionsReturn

SpecTask == Init /\ [][NextTask]_vars

\* the number of characters of a name that come from the prompt, and from
\* the asset name
FromPrompt(name) == Cardinality({i \in 1..Len(name) : name[i] = "p"})
FromAssetName(name) == Cardinality({i \in 1..Len(name) : name[i] = "a"})

\* C32: every gen2 task payload carries a non-zero width and height: the
\* requested values when both are given, otherwise 1280 by 768, whether the
\* input is an image, a video or text only.
C32_Gen2Size ==
    (genTask.built /\ genTask.TaskType = "gen2") =>
        /\ genTask.Width # 0 /\ genTask.Height # 0
        /\ IF genCfg.Width # 0 /\ genCfg.Height # 0
           THEN genTask.Width = genCfg.Width /\ genTask.Height = genCfg.Height
           ELSE genTask.Width = 1280 /\ genTask.Height = 768

\* C33: the task name holds at most 20 characters of the prompt and at most
\* 20 characters of the asset name, for both models and any lengths.
C33_NameFragments ==
    genTask.built =>
        /\ FromPrompt(genTask.Name) <= NameLimit
        /\ FromAssetName(genTask.Name) <= NameLimit

----------------------------------------------------------------------------
(* The executor under Generate: deliveries, permits and backoff waits.     *)

\* C34: for each Generate call at most one task creation request (POST
\* tasks) is physically sent to the remote, also when a delivery times out or
\* is answered with a retryable status.
C34_OneTaskCreation ==
    (genPc = "tasks" /\ doOp = "tasks") => doSends <= 1

\* C37: the backoff wait after a retryable status is selected by the number
\* of all failed attempts of the do call so far, timeouts included: 30 s after
\* the first failed attempt, 60 s after the second; so a retryable status that
\* follows a timeout waits 60 s, a call waits at most twice, and its waits
\* total at most 90 s.
C37_BackoffByAttempts ==
    /\ attempts = statusFails + otherFails
    /\ doPc = "backoff" =>
          /\ attempts \in {1, 2}
          /\ doWaits[Len(doWaits)] = IF attempts = 1 THEN 30 ELSE 60
          /\ (otherFails = 1 /\ statusFails = 1) => doWaits = <<60>>
    /\ doWaits \in {<<>>, <<30>>, <<60>>, <<30, 60>>}

\* a retryable status follows a timeout, and the call waits 60 s
C37_Witness ==
    /\ doPc = "backoff"
    /\ attempts = 2 /\ otherFails = 1 /\ statusFails = 1
    /\ lastAttempt.kind = "status"
    /\ doWaits = <<60>>

\* C36: the permit of an attempt is released on every way the attempt can
\* end, and none is held while the executor waits out a backoff or the poller
\* waits its 5 seconds: a permit is held only between the grant and the return
\* of the attempt, so the limiter is free whenever an operation asks for it.
C36_PermitReleased ==
    /\ permit => doPc = "send"
    /\ doPc \in {"lock", "backoff", "done", "idle"} => ~permit
    /\ genPc \in {"wait", "done"} => ~permit

\* an operation follows one whose last attempt ended in an error, and finds
\* the limiter free
C36_Witness ==
    /\ opCount = 2
    /\ doPc = "lock"
    /\ faults > 0
    /\ ~permit

----------------------------------------------------------------------------
(* The team scope of the requests of Upload.                               *)

\* C38: every request that carries a team scope carries the scope resolved
\* from the profile lookup and never the unresolved zero value, also when
\* Upload is the first operation on a freshly constructed client: the dataset
\* registration of Upload never carries asTeamId 0.
C38_TeamScopeResolved ==
    \A k \in 1..Len(sent) :
        sent[k].kind = "dataset" => sent[k].in.value.AsTeamID # 0

----------------------------------------------------------------------------
(* The extracted frames of an extend run.                                  *)

\* C39: when an extend run returns, after success or after the failure of
\* any step, no last-frame image it extracted is left on local storage (a
\* frame whose own removal was tried and failed set aside: the removal is
\* tried once the generation from that frame has succeeded).
C39_FrameRemoved ==
    (cfg.cmd = "extend" /\ wfPc = "returned") =>
        \A p \in 1..Len(wfLog) :
            (wfLog[p].op = "extract" /\ wfLog[p].dst \in fs) =>
                wfLog[p].dst.idx <
                    Cardinality({q \in 1..Len(wfLog) :
                                    wfLog[q].op = "generate" /\ ~Failed(wfLog[q])})

----------------------------------------------------------------------------
(* One Generate call followed to its return. Every transport call returns, *)
(* the limiter answers and the timers fire: the steps of do and of the     *)
(* poller are weakly fair. The cancellation is the caller's and is not.    *)

\* credentials that expire before the last re-fetch that is followed
LiveExpirations == {3, PollDelay * MaxLivePolls - 1}

InitLive == New(LiveExpirations)

\* the steps the program takes by itself
Progress ==
    \/ doAttemptLock
    \/ doAttemptSend
    \/ doBackoffTimer
    \/ doBackoffCancelled
    \/ generateTeamLoaded
    \/ generateObserve
    \/ generatePoll(MaxLivePolls)
    \/ generateWaitCancelled

NextLive ==
    \/ \E req \in GenerateRequests : Generate(req)
    \/ Progress
    \/ Cancel

SpecLive == InitLive /\ [][NextLive]_vars /\ WF_vars(Progress)

\* C35: every Generate call eventually returns: the poll loop ends on a
\* terminal status, on a failed re-fetch, on cancellation, or, when the task
\* stays PENDING, RUNNING or THROTTLED and nobody cancels, on the first
\* re-fetch that starts after the credential's expiration, which do refuses.
C35_GenerateReturns ==
    /\ (genPc \notin {"idle", "done"}) ~> (genPc = "done")
    /\ [](genPc = "task" /\ doStart > expiration =>
             doPc = "done" /\ doErr = ErrExpired /\ doSends = 0)

\* the task was still waiting at every re-fetch and nobody cancelled: the
\* call returned on the re-fetch refused after the expiration
C35_Witness ==
    /\ genPc = "done"
    /\ ~cancelled
    /\ polls >= 2
    /\ taskResp.Status \in WaitingStatuses
    /\ genResult.kind = "error"
    /\ genResult.err = ErrExpired

====
